---- MODULE Spec2Model ----
(***************************************************************************)
(* Adaptive polling engine of wyniki-tenis (src/results.py and             *)
(* src/results_state_machine.py): the per-control-app rate limiter with    *)
(* its cooldowns, the request executor with its retry loop, the error      *)
(* handling that writes the snapshot, and the scheduler pass driven by the *)
(* background runner.                                                      *)
(*                                                                         *)
(* Time is an integer count of clock units, UnitsPerSecond units to the    *)
(* second.  The token balance is kept in units of 1/UnitsPerSecond of a    *)
(* token, so that a refill of GLOBAL_RATE_LIMIT_PER_SECOND tokens per      *)
(* second is GLOBAL_RATE_LIMIT_PER_SECOND per clock unit and stays an      *)
(* integer.  The float tolerance 1e-9 of the source is below the clock     *)
(* resolution and comparisons are exact.  Optional[float] values are       *)
(* integers with None for an absent value.                                 *)
(***************************************************************************)
EXTENDS Integers, Sequences, FiniteSets, TLC

\* ---------------------------------------------------------------- bounds
UnitsPerSecond == 2
ThrottleHorizonSeconds == 2
MaxLog == 4

\* ------------------------------------------------------ program constants
UPDATE_INTERVAL_SECONDS == 1
REQUEST_TIMEOUT_SECONDS == 5
NAME_STABILIZATION_TICKS == 3
PER_CONTROLAPP_MIN_INTERVAL_SECONDS == 1
GLOBAL_RATE_LIMIT_PER_SECOND == 2
GLOBAL_TOKEN_BUCKET_CAPACITY == GLOBAL_RATE_LIMIT_PER_SECOND
MAX_RETRY_ATTEMPTS == 3
RETRY_BASE_DELAY_SECONDS == 5
RETRY_MAX_DELAY_SECONDS == 120
\* RETRY_JITTER_MAX_SECONDS = 0.3, in tenths of a second.
RETRY_JITTER_TENTHS == 3
COMMAND_ERROR_PAUSE_THRESHOLD == 3
COMMAND_ERROR_PAUSE_MINUTES == 5
UNAVAILABLE_SLOW_POLL_SECONDS == 60
NOT_FOUND_COOLDOWN_SECONDS == 10 * 60

\* Python's None among the times and counts, which are never negative.
None == -1

Seconds(s) == s * UnitsPerSecond

Max2(a, b) == IF a >= b THEN a ELSE b

Min2(a, b) == IF a <= b THEN a ELSE b

CeilDiv(a, b) == (a + b - 1) \div b

\* One token, and the bucket capacity, in balance units.
OneToken == UnitsPerSecond

BucketCapacity == GLOBAL_TOKEN_BUCKET_CAPACITY * UnitsPerSecond

\* The clock reading when the module is imported (the tests start at 100 s).
StartTime == Seconds(100)

\* Control-app ids of the rate limiter specification.
ControlApps == {"first", "second", "third"}

\* The courts of the overlay links, in the order the links map yields them.
Courts == <<"1">>

CourtIds == {Courts[i] : i \in 1..Len(Courts)}

VARIABLES
    now,                                \* time.time()
    pc,                                 \* position of the scheduler thread
    controlapp_id,                      \* argument of the running _throttle_request
    last_request_by_controlapp,         \* id -> time of the last admitted request, or None
    next_allowed_request_by_controlapp, \* id -> cooldown deadline, or None
    global_token_balance,
    global_tokens_last_refill,
    admitted,                           \* history: <<id, time>> of every admission logged
    links,                              \* what overlay_links_supplier returns
    server,                             \* the kind of answers the overlay server gives
    court_states,                       \* kort_id -> CourtState
    snapshots,                          \* kort_id -> snapshot entry
    tick_start,                         \* runner: time the running tick started
    ticks,                              \* number of ticks started
    current_time,                       \* _update_once: current_time
    kort_index,                         \* _update_once: position in links.items()
    spec_name,                          \* _update_once: spec_name
    command,                            \* _update_once: command
    attempt,                            \* _update_once: attempt
    last_error,                         \* _update_once: last_error
    requests,                           \* history: http.put calls since the start
    calls,                              \* history: http.put calls of the command
    backoffs,                           \* history: backoff sleeps of the command
    waited,                             \* history: the running admission was denied
    outcome,                            \* history: kort_id -> how its last command ended
    cooldown_event,                     \* history: id -> the last 429 or 404 and what followed
    scheduled_max,                      \* history: id -> latest deadline scheduled since
                                        \*          the entry was last absent
    op,                                 \* history: the last operation of the snapshot engine
    appended,                           \* history: last_updated of every archived snapshot
    occurrence_appends,                 \* history: archive appends since FINISHED was entered
    trace                               \* history: what the steps of the specification in
                                        \*          force processed, selected or reached, in order

throttle_vars == <<last_request_by_controlapp, next_allowed_request_by_controlapp,
                   global_token_balance, global_tokens_last_refill>>

pass_vars == <<links, server, court_states, snapshots, tick_start, ticks, current_time,
               kort_index, spec_name, command, attempt, last_error>>

history_vars == <<requests, calls, backoffs, waited, outcome, cooldown_event, scheduled_max>>

engine_vars == <<op, appended, occurrence_appends, trace>>

vars == <<now, pc, controlapp_id, throttle_vars, admitted, pass_vars, history_vars,
          engine_vars>>

\* ------------------------------------------------------------ rate limiter

\* A refill that forgets the capacity of the bucket.
RefillWithoutCapacity(now_value) ==
    LET last_refill == IF global_tokens_last_refill = None THEN now_value
                       ELSE global_tokens_last_refill
    IN  global_token_balance + Max2(0, now_value - last_refill) * GLOBAL_RATE_LIMIT_PER_SECOND

\* _throttle_request, the refill at the head of one loop iteration.
RefilledBalance(now_value) ==
    LET last_refill == IF global_tokens_last_refill = None THEN now_value
                       ELSE global_tokens_last_refill
        elapsed == Max2(0, now_value - last_refill)
    IN  IF elapsed > 0
        THEN Min2(BucketCapacity,
                  global_token_balance + elapsed * GLOBAL_RATE_LIMIT_PER_SECOND)
        ELSE global_token_balance

RefilledAt(now_value) ==
    LET last_refill == IF global_tokens_last_refill = None THEN now_value
                       ELSE global_tokens_last_refill
    IN  IF now_value - last_refill > 0 THEN now_value ELSE last_refill

\* A limiter that forgets the last request of the control app.
NoWaitForControlapp(id, now_value) == 0

WaitForControlapp(id, now_value) ==
    IF last_request_by_controlapp[id] = None THEN 0
    ELSE last_request_by_controlapp[id] + Seconds(PER_CONTROLAPP_MIN_INTERVAL_SECONDS)
         - now_value

WaitForCooldown(id, now_value) ==
    IF next_allowed_request_by_controlapp[id] = None THEN 0
    ELSE next_allowed_request_by_controlapp[id] - now_value

GlobalAvailable(now_value) == RefilledBalance(now_value) >= OneToken

ThrottleAdmits(id, now_value) ==
    /\ WaitForControlapp(id, now_value) <= 0
    /\ WaitForCooldown(id, now_value) <= 0
    /\ GlobalAvailable(now_value)

\* The sleep one denied iteration asks for, in clock units.
ThrottleWaitTime(id, now_value) ==
    LET wait_time == Max2(Max2(WaitForControlapp(id, now_value),
                               WaitForCooldown(id, now_value)), 0)
        deficit == Max2(0, OneToken - RefilledBalance(now_value))
        wait_for_tokens == CeilDiv(deficit, GLOBAL_RATE_LIMIT_PER_SECOND)
    IN  IF GlobalAvailable(now_value) THEN wait_time
        ELSE Max2(wait_time, wait_for_tokens)

\* The admission log keeps the last MaxLog admissions.
Logged(log, entry) ==
    IF Len(log) < MaxLog THEN Append(log, entry) ELSE Append(Tail(log), entry)

\* time.sleep returns no earlier than asked; Oversleeps are the extra units.
Oversleeps == {0, 1}

\* A limiter that gives the tick up when a gate denies admission.
throttle_request_skips(id, return_pc, log) ==
    /\ global_tokens_last_refill' = RefilledAt(now)
    /\ global_token_balance' = RefilledBalance(now)
    /\ pc' = IF ThrottleAdmits(id, now) THEN return_pc ELSE "pass"
    /\ last_request_by_controlapp' =
           IF ThrottleAdmits(id, now)
           THEN [last_request_by_controlapp EXCEPT ![id] = now]
           ELSE last_request_by_controlapp
    /\ UNCHANGED <<now, next_allowed_request_by_controlapp, admitted>>

\* One iteration of the loop of _throttle_request(id): it admits the request
\* and returns (to return_pc), or it sleeps and iterates again.
throttle_request(id, return_pc, log) ==
    /\ global_tokens_last_refill' = RefilledAt(now)
    /\ IF ThrottleAdmits(id, now)
       THEN /\ last_request_by_controlapp' =
                   [last_request_by_controlapp EXCEPT ![id] = now]
            /\ global_token_balance' = Max2(0, RefilledBalance(now) - OneToken)
            /\ next_allowed_request_by_controlapp' =
                   IF /\ next_allowed_request_by_controlapp[id] # None
                      /\ now >= next_allowed_request_by_controlapp[id]
                   THEN [next_allowed_request_by_controlapp EXCEPT ![id] = None]
                   ELSE next_allowed_request_by_controlapp
            /\ admitted' = IF log THEN Logged(admitted, <<id, now>>) ELSE admitted
            /\ pc' = return_pc
            /\ now' = now
       ELSE /\ global_token_balance' = RefilledBalance(now)
            /\ \E extra \in Oversleeps :
                   now' = now + ThrottleWaitTime(id, now) + extra
            /\ UNCHANGED <<last_request_by_controlapp,
                           next_allowed_request_by_controlapp, admitted, pc>>

\* A scheduling that overwrites the stored deadline.
schedule_overwrites(cooldowns, id, allowed_from) ==
    [cooldowns EXCEPT ![id] = Max2(0, allowed_from)]

\* _schedule_controlapp_resume: the new value of the cooldown map.
schedule_controlapp_resume(cooldowns, id, allowed_from) ==
    LET allowed == Max2(0, allowed_from)
        current == cooldowns[id]
    IN  IF current = None \/ allowed > current
        THEN [cooldowns EXCEPT ![id] = allowed]
        ELSE cooldowns

\* _controlapp_cooldown_until: the value returned, and the map it leaves.
controlapp_cooldown_until(cooldowns, id, now_value) ==
    IF cooldowns[id] = None THEN None
    ELSE IF now_value >= cooldowns[id] THEN None
    ELSE cooldowns[id]

cooldowns_after_check(cooldowns, id, now_value) ==
    IF cooldowns[id] # None /\ now_value >= cooldowns[id]
    THEN [cooldowns EXCEPT ![id] = None]
    ELSE cooldowns

\* ------------------------------------------------------------ dictionaries
DictGet(d, k, default) == IF k \in DOMAIN d THEN d[k] ELSE default

DictSet(d, k, v) == [x \in (DOMAIN d) \cup {k} |-> IF x = k THEN v ELSE d[x]]

DictDel(d, k) == [x \in (DOMAIN d) \ {k} |-> d[x]]

EmptyDict == [x \in {} |-> None]

\* ------------------------------------------------------- command schedules
\* CourtPhase
IDLE_NAMES == "idle_names"
PRE_START == "pre_start"
LIVE_POINTS == "live_points"
LIVE_GAMES == "live_games"
TIEBREAK7 == "tiebreak7"
LIVE_SETS == "live_sets"
SUPER_TB10 == "super_tb10"
FINISHED == "finished"

CommandSpec(name, interval, offset, initial_delay) ==
    [name |-> name, interval |-> interval, offset |-> offset,
     initial_delay |-> initial_delay]

\* 1.5 s and 15 s at the clock resolution.
HalfSeconds(n) == (n * UnitsPerSecond) \div 2

\* _NORMAL_COMMAND_SPECS (the stage is always NORMAL: set_stage is never called).
NORMAL_COMMAND_SPECS(phase) ==
    CASE phase = IDLE_NAMES ->
           {CommandSpec("GetNamePlayerA", Seconds(3), 0, 0),
            CommandSpec("GetNamePlayerB", Seconds(3), HalfSeconds(3), 0),
            CommandSpec("ProbeAvailability", Seconds(60), 0, 0)}
      [] phase = PRE_START ->
           {CommandSpec("GetPoints", Seconds(2), 0, Seconds(2))}
      [] phase = LIVE_POINTS ->
           {CommandSpec("GetPoints", Seconds(1), 0, Seconds(1))}
      [] phase = LIVE_GAMES ->
           {CommandSpec("GetGames", Seconds(4), 0, Seconds(4)),
            CommandSpec("ProbePoints", Seconds(6), 0, Seconds(6))}
      [] phase = TIEBREAK7 ->
           {CommandSpec("GetPoints", Seconds(1), 0, Seconds(1))}
      [] phase = LIVE_SETS ->
           {CommandSpec("GetSets", Seconds(8), 0, Seconds(8)),
            CommandSpec("ProbeGames", Seconds(6), Seconds(3), Seconds(6))}
      [] phase = SUPER_TB10 ->
           {CommandSpec("GetPoints", Seconds(1), 0, Seconds(1))}
      [] phase = FINISHED ->
           {CommandSpec("GetNamePlayerA", Seconds(30), 0, Seconds(1)),
            CommandSpec("GetNamePlayerB", Seconds(30), Seconds(15), Seconds(1))}

\* CommandSchedule.reset
schedule_reset(spec, base_time, now_value) ==
    LET target == base_time + spec.initial_delay + spec.offset
    IN  [spec |-> spec,
         next_due |-> IF target < now_value THEN now_value ELSE target,
         last_run |-> None]

\* CommandSchedule.is_due
is_due(schedule, now_value) ==
    schedule.next_due # None /\ now_value >= schedule.next_due

\* A run that advances from the old next_due only: missed runs stay due.
mark_run_from_schedule(schedule, now_value) ==
    [schedule EXCEPT
        !.last_run = now_value,
        !.next_due = IF @ # None THEN @ + schedule.spec.interval
                     ELSE now_value + schedule.spec.interval]

\* CommandSchedule.mark_run
mark_run(schedule, now_value) ==
    LET base == IF schedule.next_due # None THEN schedule.next_due ELSE now_value
    IN  [schedule EXCEPT
            !.last_run = now_value,
            !.next_due = Max2(now_value + schedule.spec.interval,
                              base + schedule.spec.interval)]

\* CourtState._configure_phase_commands: the schedules of the phase.
configure_phase_commands(phase, phase_offset, now_value) ==
    LET specs == NORMAL_COMMAND_SPECS(phase)
        names == {spec.name : spec \in specs}
        SpecOf(n) == CHOOSE spec \in specs : spec.name = n
    IN  [n \in names |-> schedule_reset(SpecOf(n), now_value + phase_offset, now_value)]

\* _default_offset(kort_id), in hundredths of a second: sha1 of "1" and of "2".
DefaultOffsetHundredths(kort_id) == IF kort_id = "1" THEN 107 ELSE 419

default_offset(kort_id) == (DefaultOffsetHundredths(kort_id) * UnitsPerSecond) \div 100

\* CourtState(kort_id): the dataclass defaults and __post_init__.
CourtState(kort_id) ==
    [kort_id |-> kort_id,
     phase |-> IDLE_NAMES,
     phase_started_at |-> 0,
     phase_offset |-> default_offset(kort_id),
     finished_name_signature |-> <<>>,
     finished_raw_signature |-> <<>>,
     command_schedules |->
         configure_phase_commands(IDLE_NAMES, default_offset(kort_id), 0),
     last_command |-> "",
     last_name_signature |-> <<>>,
     name_stability |-> 0,
     points_positive_streak |-> 0,
     points_absent_streak |-> 0,
     command_error_streak |-> 0,
     command_error_streak_by_spec |-> EmptyDict,
     paused_until |-> None,
     availability_paused_until |-> None,
     next_player_by_spec |-> EmptyDict,
     pending_players_by_spec |-> EmptyDict]

\* A transition that leaves the rotation bookkeeping of the old phase in place.
transition_keeps_pending(state, phase, now_value) ==
    IF phase = state.phase THEN state
    ELSE [state EXCEPT
            !.phase = phase,
            !.phase_started_at = now_value,
            !.finished_name_signature =
                IF phase # FINISHED THEN <<>> ELSE state.finished_name_signature,
            !.finished_raw_signature =
                IF phase # FINISHED THEN <<>> ELSE state.finished_raw_signature,
            !.command_schedules =
                configure_phase_commands(phase, state.phase_offset, now_value)]

\* A transition that rebuilds the schedules also for the phase the court is in.
transition_always_rebuilds(state, phase, now_value) ==
    [state EXCEPT
        !.phase = phase,
        !.phase_started_at = now_value,
        !.pending_players_by_spec = EmptyDict,
        !.next_player_by_spec = EmptyDict,
        !.finished_name_signature =
            IF phase # FINISHED THEN <<>> ELSE state.finished_name_signature,
        !.finished_raw_signature =
            IF phase # FINISHED THEN <<>> ELSE state.finished_raw_signature,
        !.command_schedules =
            configure_phase_commands(phase, state.phase_offset, now_value)]

\* CourtState.transition
transition(state, phase, now_value) ==
    IF phase = state.phase THEN state
    ELSE [state EXCEPT
            !.phase = phase,
            !.phase_started_at = now_value,
            !.pending_players_by_spec = EmptyDict,
            !.next_player_by_spec = EmptyDict,
            !.finished_name_signature =
                IF phase # FINISHED THEN <<>> ELSE state.finished_name_signature,
            !.finished_raw_signature =
                IF phase # FINISHED THEN <<>> ELSE state.finished_raw_signature,
            !.command_schedules =
                configure_phase_commands(phase, state.phase_offset, now_value)]

\* Python's order of the schedule names (str comparison).
NameRank(name) ==
    CASE name = "GetGames" -> 1
      [] name = "GetNamePlayerA" -> 2
      [] name = "GetNamePlayerB" -> 3
      [] name = "GetPoints" -> 4
      [] name = "GetSets" -> 5
      [] name = "ProbeAvailability" -> 6
      [] name = "ProbeGames" -> 7
      [] name = "ProbePoints" -> 8

\* The sort key of pop_due_command: (next_due or inf, last_run or -inf, name).
\* A next_due of 0.0 is falsy and sorts last; None is below every time.
Infinity == 1000000000

SortKeyBefore(s, t) ==
    LET ks == IF s.next_due = None \/ s.next_due = 0 THEN Infinity ELSE s.next_due
        kt == IF t.next_due = None \/ t.next_due = 0 THEN Infinity ELSE t.next_due
    IN  \/ ks < kt
        \/ ks = kt /\ s.last_run < t.last_run
        \/ ks = kt /\ s.last_run = t.last_run
                   /\ NameRank(s.spec.name) < NameRank(t.spec.name)

FirstOf(schedules) ==
    CHOOSE s \in schedules : \A t \in schedules \ {s} : SortKeyBefore(s, t)

NameCommands == {"GetNamePlayerA", "GetNamePlayerB"}

\* A selection by the sort order alone, without the name alternation.
pop_due_sorted_only(state, now_value) ==
    LET due == {s \in {state.command_schedules[n] : n \in DOMAIN state.command_schedules} :
                    is_due(s, now_value)}
    IN  IF due = {} THEN "" ELSE FirstOf(due).spec.name

\* CourtState.pop_due_command: the name selected, "" for None.
pop_due_selected(state, now_value) ==
    LET due == {s \in {state.command_schedules[n] : n \in DOMAIN state.command_schedules} :
                    is_due(s, now_value)}
        name_due == {s \in due : s.spec.name \in NameCommands}
        preferred == IF state.last_command = "GetNamePlayerA" THEN "GetNamePlayerB"
                     ELSE IF state.last_command = "GetNamePlayerB" THEN "GetNamePlayerA"
                     ELSE ""
    IN  IF due = {} THEN ""
        ELSE IF Cardinality(name_due) >= 2
             THEN IF preferred # "" THEN preferred ELSE FirstOf(name_due).spec.name
             ELSE FirstOf(due).spec.name

\* CourtState.pop_due_command: the state it leaves.
pop_due_command(state, now_value) ==
    LET selected == pop_due_selected(state, now_value)
    IN  IF selected = "" THEN state
        ELSE [state EXCEPT
                !.command_schedules[selected] = mark_run(@, now_value),
                !.last_command = selected]

\* CourtState.effective_pause_until
effective_pause_until(state) ==
    Max2(state.paused_until, state.availability_paused_until)

\* A pause test that looks at the error pause only.
is_paused_error_only(state, now_value) ==
    state.paused_until # None /\ state.paused_until > now_value

\* CourtState.is_paused
is_paused(state, now_value) ==
    effective_pause_until(state) # None /\ effective_pause_until(state) > now_value

\* A reset that forgets the overall streak and keeps the per-command ones.
clear_keeps_spec_streaks(state) ==
    [state EXCEPT !.paused_until = None, !.command_error_streak = 0]

\* CourtState.clear_pause
clear_pause(state) ==
    [state EXCEPT !.paused_until = None,
                  !.command_error_streak = 0,
                  !.command_error_streak_by_spec = EmptyDict]

\* An availability pause that is set once and not moved by later responses.
apply_availability_pause_once(state, now_value, duration) ==
    IF state.availability_paused_until = None
    THEN [state EXCEPT !.availability_paused_until = now_value + duration]
    ELSE state

\* CourtState.apply_availability_pause
apply_availability_pause(state, now_value, duration) ==
    LET candidate_until == now_value + duration
    IN  IF \/ state.availability_paused_until = None
           \/ candidate_until > state.availability_paused_until
        THEN [state EXCEPT !.availability_paused_until = candidate_until]
        ELSE state

\* CourtState.clear_availability_pause
clear_availability_pause(state) ==
    [state EXCEPT !.availability_paused_until = None]

\* ------------------------------------------------------------ command plan
NoneStr == "<None>"

PlanEntry(commands, players) == [commands |-> commands, players |-> players]

PointsPlan ==
    PlanEntry(<<"GetOverlayVisibility", "GetMode", "GetServe", "GetPointsPlayer{player}">>,
              <<"A", "B">>)

TieBreakPlan ==
    PlanEntry(<<"GetOverlayVisibility", "GetTieBreakVisibility", "GetServe",
                "GetTieBreakPlayer{player}">>, <<"A", "B">>)

\* COMMAND_PLAN
COMMAND_PLAN(phase) ==
    CASE phase = IDLE_NAMES ->
           [n \in {"GetNamePlayerA", "GetNamePlayerB", "ProbeAvailability"} |->
               CASE n = "GetNamePlayerA" -> PlanEntry(<<"GetNamePlayerA">>, <<>>)
                 [] n = "GetNamePlayerB" -> PlanEntry(<<"GetNamePlayerB">>, <<>>)
                 [] n = "ProbeAvailability" -> PlanEntry(<<"GetOverlayVisibility">>, <<>>)]
      [] phase \in {PRE_START, LIVE_POINTS} -> [n \in {"GetPoints"} |-> PointsPlan]
      [] phase = LIVE_GAMES ->
           [n \in {"GetGames", "ProbePoints"} |->
               IF n = "GetGames"
               THEN PlanEntry(<<"GetSet", "GetCurrentSetPlayer{player}">>, <<"A", "B">>)
               ELSE PlanEntry(<<"GetServe", "GetPointsPlayer{player}">>, <<"A", "B">>)]
      [] phase = LIVE_SETS ->
           [n \in {"GetSets", "ProbeGames"} |->
               IF n = "GetSets"
               THEN PlanEntry(<<"GetSet", "GetCurrentSetPlayer{player}">>, <<"A", "B">>)
               ELSE PlanEntry(<<"GetServe", "GetCurrentSetPlayer{player}">>, <<"A", "B">>)]
      [] phase \in {TIEBREAK7, SUPER_TB10} -> [n \in {"GetPoints"} |-> TieBreakPlan]
      [] phase = FINISHED ->
           [n \in {"GetNamePlayerA", "GetNamePlayerB"} |->
               IF n = "GetNamePlayerA" THEN PlanEntry(<<"GetNamePlayerA">>, <<>>)
               ELSE PlanEntry(<<"GetNamePlayerB">>, <<>>)]

HasPlaceholder(template) ==
    template \in {"GetPointsPlayer{player}", "GetCurrentSetPlayer{player}",
                  "GetTieBreakPlayer{player}"}

\* command_template.format(player=player)
FormatTemplate(template, player) ==
    CASE template = "GetPointsPlayer{player}" -> "GetPointsPlayer" \o player
      [] template = "GetCurrentSetPlayer{player}" -> "GetCurrentSetPlayer" \o player
      [] template = "GetTieBreakPlayer{player}" -> "GetTieBreakPlayer" \o player
      [] OTHER -> template

IndexOf(seq, x) == CHOOSE i \in 1..Len(seq) : seq[i] = x /\ \A j \in 1..(i - 1) : seq[j] # x

InSeq(seq, x) == \E i \in 1..Len(seq) : seq[i] = x

\* _order_players
order_players(players, start) ==
    IF players = <<>> THEN <<>>
    ELSE LET start_index == IF InSeq(players, start) THEN IndexOf(players, start) ELSE 1
         IN  SubSeq(players, start_index, Len(players))
             \o SubSeq(players, 1, start_index - 1)

RECURSIVE BuildQueue(_, _)
\* _select_command, the loop over the plan's commands: one entry for a plain
\* command, one per player in order for a "{player}" command.
BuildQueue(commands, ordered_players) ==
    IF commands = <<>> THEN <<>>
    ELSE LET item == Head(commands)
             entries == IF HasPlaceholder(item)
                        THEN [i \in 1..Len(ordered_players) |-> <<item, ordered_players[i]>>]
                        ELSE << <<item, NoneStr>> >>
         IN  entries \o BuildQueue(Tail(commands), ordered_players)

QueueCommand(entry) ==
    IF entry[2] # NoneStr /\ HasPlaceholder(entry[1])
    THEN FormatTemplate(entry[1], entry[2])
    ELSE entry[1]

\* _select_command: the queue it works on, rebuilt from the plan when the
\* pending queue of the spec is empty.
SelectQueue(state, spec) ==
    LET entry == COMMAND_PLAN(state.phase)[spec]
        pending == DictGet(state.pending_players_by_spec, spec, <<>>)
        start_player == DictGet(state.next_player_by_spec, spec,
                                IF entry.players = <<>> THEN NoneStr ELSE entry.players[1])
    IN  IF pending # <<>> THEN pending
        ELSE BuildQueue(entry.commands, order_players(entry.players, start_player))

\* _select_command: the command returned, "" for None.
select_command_result(state, spec) ==
    IF spec \notin DOMAIN COMMAND_PLAN(state.phase) THEN ""
    ELSE IF SelectQueue(state, spec) = <<>> THEN ""
    ELSE QueueCommand(Head(SelectQueue(state, spec)))

\* A selection that keeps no pending queue: every run expands the plan anew.
select_command_forgets_queue(state, spec) ==
    [state EXCEPT !.pending_players_by_spec = DictDel(@, spec)]

\* _select_command: the state it leaves.
select_command(state, spec) ==
    IF spec \notin DOMAIN COMMAND_PLAN(state.phase) THEN state
    ELSE
    LET entry == COMMAND_PLAN(state.phase)[spec]
        pending == DictGet(state.pending_players_by_spec, spec, <<>>)
        queue == SelectQueue(state, spec)
        rest == IF queue = <<>> THEN <<>> ELSE Tail(queue)
        start_player == DictGet(state.next_player_by_spec, spec,
                                IF entry.players = <<>> THEN NoneStr ELSE entry.players[1])
        ordered_players == order_players(entry.players, start_player)
        has_player_command == \E i \in 1..Len(entry.commands) :
                                  HasPlaceholder(entry.commands[i])
        last_player == ordered_players[Len(ordered_players)]
        next_idx == (IndexOf(entry.players, last_player) % Len(entry.players)) + 1
        rotated == IF pending = <<>> /\ queue # <<>> /\ has_player_command
                      /\ entry.players # <<>>
                   THEN DictSet(state.next_player_by_spec, spec,
                                entry.players[next_idx])
                   ELSE state.next_player_by_spec
    IN  IF queue = <<>> THEN state
        ELSE [state EXCEPT
                !.next_player_by_spec = rotated,
                !.pending_players_by_spec =
                    IF rest # <<>> THEN DictSet(@, spec, rest)
                    ELSE DictDel(@, spec)]

\* ---------------------------------------------------------------- snapshots
\* Snapshot values are Python strings; True and False stand for the booleans
\* a mapped response carries, NoneStr for None.
SNAPSHOT_STATUS_NO_DATA == "brak danych"
\* The source spells it with an e-ogonek; the value is only ever compared.
SNAPSHOT_STATUS_UNAVAILABLE == "niedostepny"
SNAPSHOT_STATUS_OK == "ok"

NOT_FOUND_BADGE == "not_found"

\* ensure_snapshot_entry: the entry created on first sight of a court.
NewSnapshotEntry(kort_id) ==
    [kort_id |-> kort_id,
     status |-> SNAPSHOT_STATUS_NO_DATA,
     last_updated |-> None,
     players |-> EmptyDict,
     raw |-> EmptyDict,
     serving |-> NoneStr,
     error |-> NoneStr,
     available |-> FALSE,
     archive |-> <<>>,
     pause_active |-> FALSE,
     pause_until |-> None,
     badges |-> <<>>]

Suffixes == {"A", "B"}

SetFields == {"Set1", "Set2", "Set3", "CurrentSet", "TieBreak"}

\* field + "Player" + suffix, the keys _PLAYER_FIELD_PATTERN matches.
PlayerKey(field, suffix) == field \o "Player" \o suffix

Blank(value) == value \in {NoneStr, "", " "}

\* _extract_players over the flattened accumulated raw map, for one side.
extract_player(raw, suffix) ==
    [name |-> DictGet(raw, PlayerKey("Name", suffix), NoneStr),
     points |-> DictGet(raw, PlayerKey("Points", suffix), NoneStr),
     sets |-> [k \in {PlayerKey(f, suffix) : f \in SetFields} \cap DOMAIN raw |-> raw[k]]]

\* _detect_server
detect_server(raw) ==
    IF DictGet(raw, "ServePlayerA", NoneStr) \in {"True", "1", "true", "yes", "on"} THEN "A"
    ELSE IF DictGet(raw, "ServePlayerB", NoneStr) \in {"True", "1", "true", "yes", "on"}
         THEN "B"
    ELSE NoneStr

\* _interpret_visibility_value: "True", "False" or NoneStr.
interpret_visibility_value(value) ==
    IF value \in {"True", "1", "true", "yes", "on", "tak", "visible", "show"} THEN "True"
    ELSE IF value \in {"False", "0", "false", "no", "off", "nie", "hidden", "hide"}
         THEN "False"
    ELSE NoneStr

\* _detect_overlay_visibility
detect_overlay_visibility(raw) ==
    IF "OverlayVisibility" \in DOMAIN raw
    THEN interpret_visibility_value(raw["OverlayVisibility"])
    ELSE NoneStr

\* _merge_partial_payload, _has_player_info
has_player_info(info) ==
    \/ info.name \notin {NoneStr, ""}
    \/ info.points # NoneStr
    \/ info.sets # EmptyDict

\* _merge_partial_payload, the loop that folds one parsed side into the players.
merge_player(players, info, suffix, serving) ==
    LET old == DictGet(players, suffix,
                       [name |-> NoneStr, points |-> NoneStr, sets |-> EmptyDict,
                        is_serving |-> FALSE])
        merged == [name |-> IF info.name # NoneStr THEN info.name ELSE old.name,
                   points |-> IF info.points # NoneStr THEN info.points ELSE old.points,
                   sets |-> [k \in (DOMAIN old.sets) \cup (DOMAIN info.sets) |->
                                IF k \in DOMAIN info.sets THEN info.sets[k] ELSE old.sets[k]],
                   is_serving |-> serving = suffix]
    IN  IF has_player_info(info) THEN DictSet(players, suffix, merged)
        ELSE IF suffix \in DOMAIN players
             THEN DictSet(players, suffix, [old EXCEPT !.is_serving = serving = suffix])
        ELSE players

\* _merge_partial_payload, _has_content for the string values of the model.
has_content(value) == ~Blank(value)

\* _merge_partial_payload, _player_has_payload: a non-blank name and either
\* points or a set value with content. Keys that hold "set" count as set
\* values; when the sets mapping has none, the "sets" entry itself counts.
player_has_payload(players, suffix) ==
    /\ suffix \in DOMAIN players
    /\ ~Blank(players[suffix].name)
    /\ LET sets == players[suffix].sets
           set_keys == {k \in DOMAIN sets :
                           k \notin {PlayerKey("TieBreak", "A"), PlayerKey("TieBreak", "B")}}
       IN  \/ ~Blank(players[suffix].points)
           \/ IF set_keys # {} THEN \E k \in set_keys : has_content(sets[k])
              ELSE sets # EmptyDict

\* A merge that leaves the error fields of the entry as they were.
merge_keeps_badges(entry, partial, now_value) ==
    [entry EXCEPT !.last_updated = now_value, !.status = SNAPSHOT_STATUS_NO_DATA]

\* A merge that decides the status on the player records it found.
merge_with_stale_status(entry, partial, now_value) ==
    LET raw == [k \in (DOMAIN entry.raw) \cup (DOMAIN partial) |->
                   IF k \in DOMAIN partial THEN partial[k] ELSE entry.raw[k]]
        serving == detect_server(raw)
        players == merge_player(
                       merge_player(entry.players, extract_player(raw, "A"), "A", serving),
                       extract_player(raw, "B"), "B", serving)
    IN  [entry EXCEPT
            !.raw = raw,
            !.last_updated = now_value,
            !.error = NoneStr,
            !.pause_active = FALSE,
            !.pause_until = None,
            !.badges = <<>>,
            !.available = detect_overlay_visibility(raw) = "True",
            !.players = players,
            !.serving = serving,
            !.status = IF \A suffix \in Suffixes : player_has_payload(entry.players, suffix)
                       THEN SNAPSHOT_STATUS_OK ELSE SNAPSHOT_STATUS_NO_DATA]

\* A merge that takes the response for the whole raw map.
merge_replaces_raw(entry, partial, now_value) ==
    [entry EXCEPT !.raw = partial, !.last_updated = now_value, !.error = NoneStr,
                  !.badges = <<>>]

\* _merge_partial_payload: the entry after merging the mapped response.
merge_partial_payload(entry, partial, now_value) ==
    LET raw == [k \in (DOMAIN entry.raw) \cup (DOMAIN partial) |->
                   IF k \in DOMAIN partial THEN partial[k] ELSE entry.raw[k]]
        serving == detect_server(raw)
        players == merge_player(
                       merge_player(entry.players, extract_player(raw, "A"), "A", serving),
                       extract_player(raw, "B"), "B", serving)
    IN  [entry EXCEPT
            !.raw = raw,
            !.last_updated = now_value,
            !.error = NoneStr,
            !.pause_active = FALSE,
            !.pause_until = None,
            !.badges = <<>>,
            !.available = detect_overlay_visibility(raw) = "True",
            !.players = players,
            !.serving = serving,
            !.status = IF \A suffix \in Suffixes : player_has_payload(players, suffix)
                       THEN SNAPSHOT_STATUS_OK ELSE SNAPSHOT_STATUS_NO_DATA]

\* An error count that starts the pause one error after the threshold.
error_state_late_pause(state, now_value, spec) ==
    LET streak == Min2(state.command_error_streak + 1, 10000)
        candidate_until == now_value + COMMAND_ERROR_PAUSE_MINUTES * Seconds(60)
    IN  [state EXCEPT
            !.command_error_streak = streak,
            !.command_error_streak_by_spec =
                IF spec # ""
                THEN DictSet(@, spec, Min2(DictGet(@, spec, 0) + 1, 10000))
                ELSE @,
            !.paused_until =
                IF /\ streak > COMMAND_ERROR_PAUSE_THRESHOLD
                   /\ (@ = None \/ candidate_until > @)
                THEN candidate_until ELSE @]

\* _update_command_error_state: the court state after one more error.
update_command_error_state(state, now_value, spec) ==
    LET streak == Min2(state.command_error_streak + 1, 10000)
        by_spec == IF spec # ""
                   THEN DictSet(state.command_error_streak_by_spec, spec,
                                Min2(DictGet(state.command_error_streak_by_spec,
                                             spec, 0) + 1, 10000))
                   ELSE state.command_error_streak_by_spec
        candidate_until == now_value + COMMAND_ERROR_PAUSE_MINUTES * Seconds(60)
    IN  [state EXCEPT
            !.command_error_streak = streak,
            !.command_error_streak_by_spec = by_spec,
            !.paused_until =
                IF /\ streak >= COMMAND_ERROR_PAUSE_THRESHOLD
                   /\ (@ = None \/ candidate_until > @)
                THEN candidate_until ELSE @]

\* _update_command_error_state: the pause_active it returns.
error_pause_active(state, now_value, spec) ==
    LET after == update_command_error_state(state, now_value, spec)
    IN  /\ after.command_error_streak >= COMMAND_ERROR_PAUSE_THRESHOLD
        /\ after.paused_until # None
        /\ after.paused_until > now_value

\* An error handler that records the text and leaves the status.
error_keeps_status(entry, state, error, now_value, spec, badges, wall_clock) ==
    [entry EXCEPT !.error = error, !.last_updated = wall_clock, !.badges = badges]

\* An error handler that marks the court and drops the text.
error_without_text(entry, state, error, now_value, spec, badges, wall_clock) ==
    [entry EXCEPT !.status = SNAPSHOT_STATUS_UNAVAILABLE, !.error = NoneStr,
                  !.last_updated = wall_clock, !.available = FALSE, !.badges = badges]

\* An error handler that forgets the players of the court.
error_drops_players(entry, state, error, now_value, spec, badges, wall_clock) ==
    [entry EXCEPT !.status = SNAPSHOT_STATUS_UNAVAILABLE, !.error = error,
                  !.last_updated = wall_clock, !.available = FALSE, !.badges = badges,
                  !.players = EmptyDict]

\* _handle_command_error: the snapshot entry it writes. state is the court
\* state before the error is counted, now_value the time the caller passes,
\* wall_clock the time _now_iso reads.
handle_command_error(entry, state, error, now_value, spec, badges, wall_clock) ==
    [entry EXCEPT
        !.error = error,
        !.status = SNAPSHOT_STATUS_UNAVAILABLE,
        !.last_updated = wall_clock,
        !.available = FALSE,
        !.pause_active = error_pause_active(state, now_value, spec),
        !.pause_until = update_command_error_state(state, now_value, spec).paused_until,
        !.badges = badges]

\* _update_snapshot_pause_state: the entry a 429 leaves. state is the court
\* state after the error is counted.
update_snapshot_pause_state(entry, state, now_value, wall_clock) ==
    [entry EXCEPT
        !.pause_active = state.paused_until # None /\ state.paused_until > now_value,
        !.pause_until = state.paused_until,
        !.last_updated = wall_clock]

\* ------------------------------------------------------------- the phases
DigitStr == <<"0", "1", "2", "3", "4", "5", "6", "7">>

\* _normalize_int over the values of the model: None for null, blank, "-".
normalize_int(value) ==
    IF \E i \in 1..Len(DigitStr) : DigitStr[i] = value
    THEN (CHOOSE i \in 1..Len(DigitStr) : DigitStr[i] = value) - 1
    ELSE IF value = "True" THEN 1
    ELSE IF value = "False" THEN 0
    ELSE None

\* _point_category
point_category(value) ==
    IF value \in {NoneStr, "", " ", "-", "na", "null", "none"} THEN "unknown"
    ELSE IF value \in {"0", "00", "love", "l", "False"} THEN "zero"
    ELSE "positive"

\* _truthy
truthy(value) ==
    value \in {"True", "1", "true", "yes", "on", "tak", "finished", "finish",
               "complete", "completed", "done"}

\* CourtState.compute_name_signature: "A|B" as the pair of its two parts.
compute_name_signature(snapshot) ==
    LET NameOf(suffix) ==
            IF suffix \in DOMAIN snapshot.players
               /\ snapshot.players[suffix].name # NoneStr
            THEN snapshot.players[suffix].name ELSE ""
    IN  <<NameOf("A"), NameOf("B")>>

\* CourtState.compute_raw_signature: the fingerprint is one-to-one on raw.
compute_raw_signature(snapshot) == <<"raw", snapshot.raw>>

\* A stability counter that keeps counting when a name changes.
name_stability_ignores_change(state, signature, required_ticks) ==
    LET has_all_names == \A i \in 1..2 : signature[i] \notin {"", " "}
        cap == IF required_ticks > 0 THEN required_ticks ELSE 10000
    IN  [state EXCEPT
            !.name_stability = IF ~has_all_names THEN 0 ELSE Min2(@ + 1, cap),
            !.last_name_signature = signature]

\* CourtState.update_name_stability
update_name_stability(state, signature, required_ticks) ==
    LET has_all_names == \A i \in 1..2 : signature[i] \notin {"", " "}
        cap == IF required_ticks > 0 THEN required_ticks ELSE 10000
    IN  [state EXCEPT
            !.name_stability =
                IF ~has_all_names THEN 0
                ELSE IF signature = state.last_name_signature THEN Min2(@ + 1, cap)
                ELSE 1,
            !.last_name_signature = signature]

SetKey(index, suffix) == "Set" \o DigitStr[index + 1] \o "Player" \o suffix

\* CourtState.compute_score_snapshot
compute_score_snapshot(snapshot) ==
    LET raw == snapshot.raw
        PointValue(suffix) ==
            LET own == IF suffix \in DOMAIN snapshot.players
                       THEN snapshot.players[suffix].points ELSE NoneStr
            IN  IF own \in {NoneStr, "", "-"}
                THEN DictGet(raw, PlayerKey("Points", suffix), NoneStr) ELSE own
        GameValue(suffix) ==
            normalize_int(
                IF PlayerKey("CurrentGame", suffix) \in DOMAIN raw
                THEN raw[PlayerKey("CurrentGame", suffix)]
                ELSE IF PlayerKey("Games", suffix) \in DOMAIN raw
                     THEN raw[PlayerKey("Games", suffix)]
                ELSE DictGet(raw, PlayerKey("Game", suffix), NoneStr))
        set_values == [i \in 1..7 |->
                          [x \in Suffixes |->
                              normalize_int(DictGet(raw, SetKey(i, x), NoneStr))]]
        SetValue(index, suffix) == set_values[index][suffix]
        set_scores == {i \in 1..7 : SetValue(i, "A") # None \/ SetValue(i, "B") # None}
        completed == {i \in set_scores : SetValue(i, "A") # None /\ SetValue(i, "B") # None}
        raw_tie_break == \E k \in {"TieBreak", "Tiebreak", "MatchTieBreak", "SetTieBreak",
                                   "TieBreakInProgress"} : truthy(DictGet(raw, k, NoneStr))
        super_tb_active == \E k \in {"SuperTieBreak", "SuperTiebreak", "MatchSuperTieBreak",
                                     "SuperTieBreakInProgress"} :
                               truthy(DictGet(raw, k, NoneStr))
        categories == [x \in Suffixes |-> point_category(PointValue(x))]
        games == [x \in Suffixes |-> GameValue(x)]
    IN  [points_known |-> \A x \in Suffixes : categories[x] # "unknown",
         points_any |-> \E x \in Suffixes : categories[x] # "unknown",
         points_positive |-> \E x \in Suffixes : categories[x] = "positive",
         points_zero |-> /\ \A x \in Suffixes : categories[x] # "unknown"
                         /\ \A x \in Suffixes : categories[x] # "positive",
         games_known |-> \A x \in Suffixes : games[x] # None,
         games_any |-> \E x \in Suffixes : games[x] # None,
         games_positive |-> \E x \in Suffixes : games[x] > 0,
         sets_present |-> set_scores # {},
         sets_completed |-> Cardinality(completed),
         total_sets |-> Cardinality(set_scores),
         sets_won |-> <<Cardinality({i \in completed : SetValue(i, "A") > SetValue(i, "B")}),
                        Cardinality({i \in completed : SetValue(i, "B") > SetValue(i, "A")})>>,
         tie_break_active |-> raw_tie_break /\ ~super_tb_active,
         super_tb_active |-> super_tb_active]

\* A positive-points streak that starts over after two ticks.
score_streak_wraps(state, score) ==
    [state EXCEPT
        !.points_positive_streak = IF score.points_positive THEN (@ + 1) % 3 ELSE 0,
        !.points_absent_streak =
            IF score.sets_present /\ ~score.points_any THEN Min2(@ + 1, 10000) ELSE 0]

\* CourtState.update_score_stability
update_score_stability(state, score) ==
    [state EXCEPT
        !.points_positive_streak = IF score.points_positive THEN Min2(@ + 1, 10000) ELSE 0,
        !.points_absent_streak =
            IF score.sets_present /\ ~score.points_any THEN Min2(@ + 1, 10000) ELSE 0]

\* A classifier that lets a snapshot with status ok and no names through.
classify_ok_without_names(snapshot, state, score) ==
    LET name_signature == compute_name_signature(snapshot)
        has_any_name == \E i \in 1..2 : name_signature[i] \notin {"", " "}
        unstable == state.name_stability < NAME_STABILIZATION_TICKS
        finished_sets ==
            /\ score.sets_completed >= 1
            /\ \/ Max2(score.sets_won[1], score.sets_won[2]) >= 2
               \/ score.sets_completed >= 3
    IN  IF snapshot.status # SNAPSHOT_STATUS_OK /\ (~has_any_name \/ unstable)
        THEN IDLE_NAMES
        ELSE IF state.phase = IDLE_NAMES /\ NAME_STABILIZATION_TICKS > 0 /\ unstable
             THEN IDLE_NAMES
        ELSE IF unstable /\ ~score.points_any /\ ~score.games_any /\ ~score.sets_present
             THEN IDLE_NAMES
        ELSE IF finished_sets /\ state.points_absent_streak >= 2 THEN FINISHED
        ELSE IF score.super_tb_active THEN SUPER_TB10
        ELSE IF score.tie_break_active THEN TIEBREAK7
        ELSE IF score.sets_present /\ score.sets_completed > 0 THEN LIVE_SETS
        ELSE IF score.games_positive THEN LIVE_GAMES
        ELSE IF state.points_positive_streak >= 2 THEN LIVE_POINTS
        ELSE PRE_START

\* A classifier that looks at the games before the sets.
classify_games_before_sets(snapshot, state, score) ==
    LET name_signature == compute_name_signature(snapshot)
        has_any_name == \E i \in 1..2 : name_signature[i] \notin {"", " "}
        unstable == state.name_stability < NAME_STABILIZATION_TICKS
        finished_sets ==
            /\ score.sets_completed >= 1
            /\ \/ Max2(score.sets_won[1], score.sets_won[2]) >= 2
               \/ score.sets_completed >= 3
    IN  IF snapshot.status # SNAPSHOT_STATUS_OK /\ (~has_any_name \/ unstable)
        THEN IDLE_NAMES
        ELSE IF snapshot.status = SNAPSHOT_STATUS_OK /\ ~has_any_name THEN IDLE_NAMES
        ELSE IF state.phase = IDLE_NAMES /\ NAME_STABILIZATION_TICKS > 0 /\ unstable
             THEN IDLE_NAMES
        ELSE IF unstable /\ ~score.points_any /\ ~score.games_any /\ ~score.sets_present
             THEN IDLE_NAMES
        ELSE IF finished_sets /\ state.points_absent_streak >= 2 THEN FINISHED
        ELSE IF score.super_tb_active THEN SUPER_TB10
        ELSE IF score.tie_break_active THEN TIEBREAK7
        ELSE IF score.games_positive THEN LIVE_GAMES
        ELSE IF score.sets_present /\ score.sets_completed > 0 THEN LIVE_SETS
        ELSE IF state.points_positive_streak >= 2 THEN LIVE_POINTS
        ELSE PRE_START

\* A classifier that keeps every snapshot whose status is not ok in IDLE_NAMES.
classify_idle_unless_ok(snapshot, state, score) ==
    LET name_signature == compute_name_signature(snapshot)
        has_any_name == \E i \in 1..2 : name_signature[i] \notin {"", " "}
        unstable == state.name_stability < NAME_STABILIZATION_TICKS
        finished_sets ==
            /\ score.sets_completed >= 1
            /\ \/ Max2(score.sets_won[1], score.sets_won[2]) >= 2
               \/ score.sets_completed >= 3
    IN  IF snapshot.status # SNAPSHOT_STATUS_OK THEN IDLE_NAMES
        ELSE IF ~has_any_name THEN IDLE_NAMES
        ELSE IF state.phase = IDLE_NAMES /\ NAME_STABILIZATION_TICKS > 0 /\ unstable
             THEN IDLE_NAMES
        ELSE IF unstable /\ ~score.points_any /\ ~score.games_any /\ ~score.sets_present
             THEN IDLE_NAMES
        ELSE IF finished_sets /\ state.points_absent_streak >= 2 THEN FINISHED
        ELSE IF score.super_tb_active THEN SUPER_TB10
        ELSE IF score.tie_break_active THEN TIEBREAK7
        ELSE IF score.sets_present /\ score.sets_completed > 0 THEN LIVE_SETS
        ELSE IF score.games_positive THEN LIVE_GAMES
        ELSE IF state.points_positive_streak >= 2 THEN LIVE_POINTS
        ELSE PRE_START

\* _classify_phase
classify_phase(snapshot, state, score) ==
    LET name_signature == compute_name_signature(snapshot)
        has_any_name == \E i \in 1..2 : name_signature[i] \notin {"", " "}
        unstable == state.name_stability < NAME_STABILIZATION_TICKS
        finished_sets ==
            /\ score.sets_completed >= 1
            /\ \/ Max2(score.sets_won[1], score.sets_won[2]) >= 2
               \/ score.sets_completed >= 3
    IN  IF snapshot.status # SNAPSHOT_STATUS_OK /\ (~has_any_name \/ unstable)
        THEN IDLE_NAMES
        ELSE IF snapshot.status = SNAPSHOT_STATUS_OK /\ ~has_any_name THEN IDLE_NAMES
        ELSE IF state.phase = IDLE_NAMES /\ NAME_STABILIZATION_TICKS > 0 /\ unstable
             THEN IDLE_NAMES
        ELSE IF unstable /\ ~score.points_any /\ ~score.games_any /\ ~score.sets_present
             THEN IDLE_NAMES
        ELSE IF finished_sets /\ state.points_absent_streak >= 2 THEN FINISHED
        ELSE IF score.super_tb_active THEN SUPER_TB10
        ELSE IF score.tie_break_active THEN TIEBREAK7
        ELSE IF score.sets_present /\ score.sets_completed > 0 THEN LIVE_SETS
        ELSE IF score.games_positive THEN LIVE_GAMES
        ELSE IF state.points_positive_streak >= 2 THEN LIVE_POINTS
        ELSE PRE_START

\* The counters advancing on successful exchanges only.
stabilized_on_success_only(state, snapshot) ==
    IF snapshot.status # SNAPSHOT_STATUS_OK THEN state
    ELSE update_score_stability(
             update_name_stability(state, compute_name_signature(snapshot),
                                   NAME_STABILIZATION_TICKS),
             compute_score_snapshot(snapshot))

\* _process_snapshot, its first half: the stability counters.
stabilized(state, snapshot) ==
    update_score_stability(
        update_name_stability(state, compute_name_signature(snapshot),
                              NAME_STABILIZATION_TICKS),
        compute_score_snapshot(snapshot))

\* The reset rule without its classifier test: any change in FINISHED resets.
reset_on_any_change(state, snapshot) ==
    /\ state.phase = FINISHED
    /\ \/ compute_name_signature(snapshot) # state.finished_name_signature
       \/ compute_raw_signature(snapshot) # state.finished_raw_signature

\* The reset rule with its classifier test inverted.
reset_when_classifier_left(state, snapshot) ==
    /\ state.phase = FINISHED
    /\ classify_phase(snapshot, stabilized(state, snapshot),
                      compute_score_snapshot(snapshot)) # FINISHED
    /\ \/ compute_name_signature(snapshot) # state.finished_name_signature
       \/ compute_raw_signature(snapshot) # state.finished_raw_signature

\* _process_snapshot: TRUE when a finished match shows new names or new raw
\* data and the court goes back to IDLE_NAMES.
finished_match_changed(state, snapshot) ==
    LET counted == stabilized(state, snapshot)
        desired == classify_phase(snapshot, counted, compute_score_snapshot(snapshot))
    IN  /\ state.phase = FINISHED
        /\ desired = FINISHED
        /\ \/ /\ state.finished_name_signature # <<>>
              /\ compute_name_signature(snapshot) # state.finished_name_signature
           \/ /\ state.finished_raw_signature # <<>>
              /\ compute_raw_signature(snapshot) # state.finished_raw_signature

\* Archives whenever the classifier says FINISHED, entry or not.
archives_while_finished(state, snapshot) ==
    classify_phase(snapshot, stabilized(state, snapshot),
                   compute_score_snapshot(snapshot)) = FINISHED

\* _process_snapshot: TRUE when it archives the snapshot (entry into FINISHED).
process_snapshot_archives(state, snapshot) ==
    LET counted == stabilized(state, snapshot)
        desired == classify_phase(snapshot, counted, compute_score_snapshot(snapshot))
    IN  /\ ~finished_match_changed(state, snapshot)
        /\ desired = FINISHED
        /\ state.phase # FINISHED

\* _process_snapshot: the court state it leaves.
process_snapshot(state, snapshot, now_value) ==
    LET counted == stabilized(state, snapshot)
        desired == classify_phase(snapshot, counted, compute_score_snapshot(snapshot))
        moved == transition(counted, desired, now_value)
        signed == IF moved.phase = FINISHED
                  THEN [moved EXCEPT
                           !.finished_name_signature = compute_name_signature(snapshot),
                           !.finished_raw_signature = compute_raw_signature(snapshot)]
                  ELSE [moved EXCEPT !.finished_name_signature = <<>>,
                                     !.finished_raw_signature = <<>>]
        has_visibility_flag == "OverlayVisibility" \in DOMAIN snapshot.raw
    IN  IF finished_match_changed(state, snapshot)
        THEN transition(counted, IDLE_NAMES, now_value)
        ELSE IF ~snapshot.available /\ has_visibility_flag
             THEN apply_availability_pause(signed, now_value,
                                           Seconds(UNAVAILABLE_SLOW_POLL_SECONDS))
        ELSE IF snapshot.available THEN clear_availability_pause(signed)
        ELSE signed

\* _archive_snapshot: the entry with the snapshot appended to its archive.
ARCHIVE_LIMIT == 50

\* An archive that is full keeps what it has.
archive_keeps_oldest(entry, snapshot) ==
    [entry EXCEPT
        !.archive = IF Len(@) >= ARCHIVE_LIMIT THEN @
                    ELSE Append(@, [kort_id |-> snapshot.kort_id,
                                    status |-> snapshot.status,
                                    last_updated |-> snapshot.last_updated,
                                    players |-> snapshot.players,
                                    serving |-> snapshot.serving,
                                    raw |-> snapshot.raw,
                                    error |-> snapshot.error])]

archive_snapshot(entry, snapshot) ==
    LET archive_entry == [kort_id |-> snapshot.kort_id,
                          status |-> snapshot.status,
                          last_updated |-> snapshot.last_updated,
                          players |-> snapshot.players,
                          serving |-> snapshot.serving,
                          raw |-> snapshot.raw,
                          error |-> snapshot.error]
        history == Append(entry.archive, archive_entry)
    IN  [entry EXCEPT
            !.archive = IF Len(history) > ARCHIVE_LIMIT
                        THEN SubSeq(history, Len(history) - ARCHIVE_LIMIT + 1, Len(history))
                        ELSE history]

\* ---------------------------------------------------------- response headers
\* A header that holds a number is its value in seconds; None is no header.
\* _parse_retry_after
parse_retry_after(retry_after) ==
    IF retry_after = None THEN None ELSE Max2(0, Seconds(retry_after))

\* Header numbers below zero, kept apart from None.
Negative == -2

\* _parse_reset_header_value for a numeric header: an absolute timestamp when
\* it is more than a second past the reference time, else an offset.
parse_reset_header_value(value, reference_time) ==
    IF value = None THEN None
    ELSE IF value = Negative THEN None
    ELSE IF Seconds(value) > reference_time + Seconds(1) THEN Seconds(value)
    ELSE reference_time + Seconds(value)

\* _parse_rate_limit_reset
parse_rate_limit_reset(response, reference_time) ==
    parse_reset_header_value(response.rate_limit_reset, reference_time)

\* _parse_singular_daily_calls_header: the header as its remaining count and
\* its reset value; None for both when the header is absent.
parse_singular_daily_calls_header(response, reference_time) ==
    [remaining |-> response.daily_remaining,
     reset |-> parse_reset_header_value(response.daily_reset, reference_time)]

\* _calculate_retry_delay: the delays it can return (the jitter is random).
RetryJitters == 0..((RETRY_JITTER_TENTHS * UnitsPerSecond) \div 10)

calculate_retry_delay(attempt_number, response) ==
    IF response.status # None /\ parse_retry_after(response.retry_after) # None
    THEN {parse_retry_after(response.retry_after)}
    ELSE {Seconds(Min2(RETRY_MAX_DELAY_SECONDS,
                       RETRY_BASE_DELAY_SECONDS * (2 ^ attempt_number))) + jitter :
              jitter \in RetryJitters}

\* ------------------------------------------------------- overlay responses
\* _map_command_response, _extract_from_player: the first of the keys the
\* flat body holds.
RECURSIVE first_present(_, _)
first_present(body, keys) ==
    IF keys = <<>> THEN NoneStr
    ELSE IF Head(keys) \in DOMAIN body THEN body[Head(keys)]
    ELSE first_present(body, Tail(keys))

CommandSuffix(name) ==
    IF name \in {"GetNamePlayerA", "GetPointsPlayerA", "GetCurrentSetPlayerA",
                 "GetTieBreakPlayerA"} THEN "A"
    ELSE IF name \in {"GetNamePlayerB", "GetPointsPlayerB", "GetCurrentSetPlayerB",
                      "GetTieBreakPlayerB"} THEN "B"
    ELSE NoneStr

\* The player field a Get<Field>Player<X> command asks for.
CommandField(name) ==
    IF name \in {"GetNamePlayerA", "GetNamePlayerB"} THEN "Name"
    ELSE IF name \in {"GetPointsPlayerA", "GetPointsPlayerB"} THEN "Points"
    ELSE IF name \in {"GetCurrentSetPlayerA", "GetCurrentSetPlayerB"} THEN "CurrentSet"
    ELSE IF name \in {"GetTieBreakPlayerA", "GetTieBreakPlayerB"} THEN "TieBreak"
    ELSE NoneStr

DictUpdate(d, e) == [k \in (DOMAIN d) \cup (DOMAIN e) |-> IF k \in DOMAIN e THEN e[k] ELSE d[k]]

\* _map_command_response over a flat body: the flat keys of the mapped
\* payload (the nested PlayerA and PlayerB copies repeat them).
map_command_response(name, body) ==
    LET suffix == CommandSuffix(name)
        field == CommandField(name)
        player_value ==
            first_present(body, <<PlayerKey(field, suffix), field, "Value", "value">>)
        serve_value == first_present(body, <<"Server", "Serve", "CurrentServer",
                                             "value", "Value">>)
        readable == {k \in DOMAIN body : interpret_visibility_value(body[k]) # NoneStr}
        visibility == interpret_visibility_value(body[CHOOSE k \in readable : TRUE])
        mode_value == first_present(body, <<"Mode", "mode", "Value", "value">>)
        Only(k, v) == [x \in {k} |-> v]
    IN  IF field # NoneStr
        THEN LET assigned == IF player_value # NoneStr
                             THEN DictSet(body, PlayerKey(field, suffix), player_value)
                             ELSE body
             IN  IF field = "TieBreak" /\ "TieBreakVisibility" \notin DOMAIN assigned
                 THEN DictSet(assigned, "TieBreakVisibility", NoneStr)
                 ELSE assigned
        ELSE IF name = "GetServe"
        THEN IF serve_value \in {"A", "a"}
             THEN DictUpdate(body, [x \in {"ServePlayerA", "ServePlayerB"} |->
                                       IF x = "ServePlayerA" THEN "True" ELSE "False"])
             ELSE IF serve_value \in {"B", "b"}
             THEN DictUpdate(body, [x \in {"ServePlayerA", "ServePlayerB"} |->
                                       IF x = "ServePlayerB" THEN "True" ELSE "False"])
             ELSE body
        ELSE IF name = "GetOverlayVisibility"
        THEN IF readable # {} THEN DictSet(body, "OverlayVisibility", visibility) ELSE body
        ELSE IF name = "GetTieBreakVisibility"
        THEN IF readable # {} THEN DictSet(body, "TieBreakVisibility", visibility) ELSE body
        ELSE IF name = "GetMode"
        THEN IF mode_value # NoneStr THEN DictSet(body, "Mode", mode_value) ELSE body
        ELSE body

ValueBody(v) == [k \in {"value"} |-> v]

\* The JSON bodies the overlay server answers a command with.
Bodies(name) ==
    IF name = "GetNamePlayerA" THEN {ValueBody("Ann")}
    ELSE IF name = "GetNamePlayerB" THEN {ValueBody("Bob")}
    ELSE IF name = "GetOverlayVisibility" THEN {ValueBody("True"), ValueBody("False")}
    ELSE IF CommandField(name) = "Points" THEN {ValueBody("0"), ValueBody("15")}
    ELSE IF name = "GetServe" THEN {ValueBody("A")}
    ELSE IF name = "GetSet"
    THEN {[k \in {"Set1PlayerA", "Set1PlayerB"} |-> IF k = "Set1PlayerA" THEN "6" ELSE "4"]}
    ELSE {ValueBody("1")}

\* The outcome of one http.put: a response (raised = "") or an exception.
\* Header fields hold the header's number in seconds, None when absent.
Outcome(status, raised, error_text, retry_after, rate_limit_reset, daily_remaining, daily_reset, decodable, body, latency) ==
    [status |-> status, raised |-> raised, error_text |-> error_text,
     retry_after |-> retry_after, rate_limit_reset |-> rate_limit_reset,
     daily_remaining |-> daily_remaining, daily_reset |-> daily_reset,
     decodable |-> decodable, body |-> body, latency |-> latency]

Plain(status) == Outcome(status, "", "", None, None, None, None, FALSE, EmptyDict, 0)

\* An exhausted daily quota; its reset header holds the time QuotaResetSeconds,
\* which is later than the times the ticks of the model start at.
QuotaResetSeconds == 15 * 60

WithQuota(r) == [r EXCEPT !.daily_remaining = 0, !.daily_reset = QuotaResetSeconds]

\* An exhausted quota whose reset time comes before the cooldown of the first
\* 404 ends.
QuotaSoonSeconds == 5 * 60

Servers == {"client", "rate", "transport"}

\* What http.put can return or raise for a command, by the kind of server.
Outcomes(kind, name) ==
    LET ok == {[Plain(200) EXCEPT !.decodable = TRUE, !.body = body] : body \in Bodies(name)}
        timeouts == {Outcome(None, "Timeout", text, None, None, None, None, FALSE,
                             EmptyDict, Seconds(REQUEST_TIMEOUT_SECONDS)) :
                         text \in {"", "timed out"}}
        refused == {Outcome(None, "ConnectionError", "connection refused", None, None,
                            None, None, FALSE, EmptyDict, 0)}
        undecodable == {[Plain(200) EXCEPT !.error_text = "Expecting value"]}
    IN  CASE kind = "client" ->
               ok \cup undecodable
                  \cup {Plain(400), Plain(403), WithQuota(Plain(403)), Plain(404)}
          [] kind = "rate" ->
               ok \cup {WithQuota(r) : r \in ok}
                  \cup {Plain(429),
                        [Plain(429) EXCEPT !.retry_after = 2],
                        [Plain(429) EXCEPT !.retry_after = 2, !.rate_limit_reset = 104],
                        WithQuota([Plain(429) EXCEPT !.retry_after = 2]),
                        Plain(404), WithQuota(Plain(404)),
                        [WithQuota(Plain(404)) EXCEPT !.daily_reset = QuotaSoonSeconds]}
          [] kind = "transport" ->
               ok \cup timeouts \cup refused
                  \cup {Plain(500), [Plain(500) EXCEPT !.retry_after = 0], Plain(403)}
          [] kind = "quota" ->
               ok \cup {WithQuota(r) : r \in ok}
                  \cup {WithQuota(Plain(403)), WithQuota(Plain(404)),
                        WithQuota([Plain(429) EXCEPT !.retry_after = 2]),
                        WithQuota(Plain(500)), WithQuota([Plain(200) EXCEPT
                                                             !.error_text = "Expecting value"])}

\* _format_http_error_details: the text starts with "HTTP <status>".
format_http_error_details(status) ==
    CASE status = 400 -> "HTTP 400"
      [] status = 403 -> "HTTP 403"
      [] status = 404 -> "HTTP 404"
      [] status = 429 -> "HTTP 429"
      [] status = 500 -> "HTTP 500"

\* A retry loop without the bound on the attempts.
OutcomeKindUnbounded(r, attempt_number) ==
    IF r.raised = "Timeout" \/ (r.raised = "" /\ r.status >= 500) THEN "retry"
    ELSE IF r.raised # "" THEN "exception"
    ELSE IF r.status = 404 THEN "404"
    ELSE IF r.status = 400 THEN "400"
    ELSE IF r.status >= 400 /\ r.status < 500 /\ r.status # 429 THEN "4xx"
    ELSE IF r.status = 429 THEN "429"
    ELSE IF r.decodable THEN "ok"
    ELSE "undecodable"

\* _update_once, the retry loop: how one call's outcome is handled.
OutcomeKind(r, attempt_number) ==
    IF r.raised = "Timeout" \/ (r.raised = "" /\ r.status >= 500)
    THEN IF attempt_number >= MAX_RETRY_ATTEMPTS THEN "exhausted" ELSE "retry"
    ELSE IF r.raised # "" THEN "exception"
    ELSE IF r.status = 404 THEN "404"
    ELSE IF r.status = 400 THEN "400"
    ELSE IF r.status >= 400 /\ r.status < 500 /\ r.status # 429 THEN "4xx"
    ELSE IF r.status = 429 THEN "429"
    ELSE IF r.decodable THEN "ok"
    ELSE "undecodable"

ErrorKinds == {"exhausted", "exception", "404", "400", "4xx", "undecodable"}

\* A 429 branch that reads no header.
cooldown_without_headers(r, response_time) ==
    response_time + Seconds(PER_CONTROLAPP_MIN_INTERVAL_SECONDS)

\* _update_once, the 429 branch: cooldown_until.
rate_limit_cooldown(r, response_time) ==
    LET retry_after_seconds == parse_retry_after(r.retry_after)
        reset_timestamp == parse_rate_limit_reset(r, response_time)
        by_retry_after == IF retry_after_seconds # None
                          THEN response_time + retry_after_seconds ELSE None
        by_reset == IF reset_timestamp # None
                    THEN Max2(response_time, reset_timestamp) ELSE None
    IN  IF by_retry_after = None /\ by_reset = None
        THEN response_time + Seconds(PER_CONTROLAPP_MIN_INTERVAL_SECONDS)
        ELSE Max2(by_retry_after, by_reset)

\* _update_once, the daily quota branch: the reset time it schedules, or None.
quota_resume(r, response_time) ==
    LET daily_limits == parse_singular_daily_calls_header(r, response_time)
    IN  IF /\ r.raised = ""
           /\ daily_limits.remaining # None
           /\ daily_limits.remaining <= 0
           /\ daily_limits.reset # None
        THEN daily_limits.reset ELSE None

\* ------------------------------------------------------------- overlay links
ControlUrl(kort_id) ==
    IF kort_id = "1" THEN "https://app.overlays.uno/control/first"
    ELSE "https://app.overlays.uno/control/second"

MalformedUrl == "https://app.overlays.uno/output/first"

\* _extract_controlapp_identifier: the path segment after "control" or
\* "controlapps"; "" stands for the ValueError it raises without one.
extract_controlapp_identifier(control_url) ==
    CASE control_url = "https://app.overlays.uno/control/first" -> "first"
      [] control_url = "https://app.overlays.uno/control/second" -> "second"
      [] OTHER -> ""

ExtractErrorText == "Nie mozna wyodrebnic identyfikatora aplikacji kontrolnej z adresu"

\* The links the supplier can return for one court.
LinkChoices(kort_id) ==
    {[enabled |-> TRUE, control |-> ControlUrl(kort_id)],
     [enabled |-> FALSE, control |-> ControlUrl(kort_id)],
     [enabled |-> TRUE, control |-> ""],
     [enabled |-> TRUE, control |-> MalformedUrl]}

\* ------------------------------------------------------------------ history
NoOutcome == [kind |-> "none", t |-> None, at |-> None, tick |-> None, attempt |-> 0,
              status |-> None, quota |-> None, prev |-> "none",
              before_status |-> SNAPSHOT_STATUS_NO_DATA, before_error |-> NoneStr]

NoEvent == [kind |-> "none", t |-> None, retry_after |-> None, reset |-> None,
            quota |-> None, first_sent |-> None, first_tick |-> "", first_tick_stored |-> "",
            resumed |-> "", resumed_stored |-> ""]

\* No operation of the snapshot engine yet.
NoOp == [kind |-> "none", partial |-> EmptyDict, desired |-> "", previous_phase |-> ""]

\* _ensure_court_state: the state of the court, created on first sight.
ensure_court_state(kort_id) == DictGet(court_states, kort_id, CourtState(kort_id))

\* ensure_snapshot_entry: the entry of the court, created on first sight.
ensure_snapshot_entry(kort_id) == DictGet(snapshots, kort_id, NewSnapshotEntry(kort_id))

\* What a visit of a court in a tick does with it.
VisitResult(kort_id, t) ==
    LET link == links[kort_id]
        id == extract_controlapp_identifier(link.control)
        state == ensure_court_state(kort_id)
    IN  IF ~link.enabled THEN "disabled"
        ELSE IF link.control = "" THEN "nocontrol"
        ELSE IF id = "" THEN "malformed"
        ELSE IF controlapp_cooldown_until(next_allowed_request_by_controlapp, id, t) # None
             THEN "cooldown"
        ELSE IF is_paused(state, t) THEN "paused"
        ELSE IF pop_due_selected(state, t) = "" THEN "idle"
        ELSE "command"

\* The deadline the claim of a 429 or 404 names: max(t + Retry-After, reset),
\* t + the minimum spacing without both headers, t + the 404 cooldown.
EventDeadline(event) ==
    IF event.kind = "404" THEN event.t + Seconds(NOT_FOUND_COOLDOWN_SECONDS)
    ELSE IF event.retry_after = None /\ event.reset = None
         THEN event.t + Seconds(PER_CONTROLAPP_MIN_INTERVAL_SECONDS)
    ELSE Max2(IF event.retry_after = None THEN None ELSE event.t + event.retry_after,
              event.reset)

\* The deadline stored after the event: the later of it and the quota reset.
StoredDeadline(event) == Max2(EventDeadline(event), event.quota)

\* ----------------------------------------------------------- scheduler pass
MaxTicks == 5

MaxRequests == 4

Init ==
    /\ now = StartTime
    /\ pc = "runner"
    /\ controlapp_id = "first"
    /\ last_request_by_controlapp = [id \in ControlApps |-> None]
    /\ next_allowed_request_by_controlapp = [id \in ControlApps |-> None]
    /\ global_token_balance = BucketCapacity
    /\ global_tokens_last_refill = StartTime
    /\ admitted = <<>>
    /\ links \in [CourtIds -> UNION {LinkChoices(k) : k \in CourtIds}]
    /\ \A k \in CourtIds : links[k] \in LinkChoices(k)
    /\ server \in Servers
    /\ court_states = [k \in CourtIds |-> CourtState(k)]
    /\ snapshots = [k \in CourtIds |-> NewSnapshotEntry(k)]
    /\ tick_start = StartTime
    /\ ticks = 0
    /\ current_time = StartTime
    /\ kort_index = 0
    /\ spec_name = ""
    /\ command = ""
    /\ attempt = 0
    /\ last_error = NoneStr
    /\ requests = 0
    /\ calls = 0
    /\ backoffs = 0
    /\ waited = FALSE
    /\ outcome = [k \in CourtIds |-> NoOutcome]
    /\ cooldown_event = [id \in ControlApps |-> NoEvent]
    /\ scheduled_max = [id \in ControlApps |-> None]
    /\ op = NoOp
    /\ appended = <<>>
    /\ occurrence_appends = 0
    /\ trace = <<>>

\* runner: tick_start = time.time(); _update_once(now=tick_start) begins.
TickBegin ==
    /\ pc = "runner"
    /\ ticks < MaxTicks
    /\ pc' = "pass"
    /\ tick_start' = now
    /\ current_time' = now
    /\ kort_index' = 1
    /\ ticks' = ticks + 1
    /\ UNCHANGED <<engine_vars, now, controlapp_id, throttle_vars, admitted, links, server, court_states,
                   snapshots, spec_name, command, attempt, last_error, history_vars>>

\* The history of a 429 or 404 at a visit of the court, up to the next
\* request: what the first tick at or after the deadline does (first_tick),
\* and what the first such tick with a due command and an error streak below
\* the threshold does (resumed).
EventAfterVisit(event, kort_id, t) ==
    LET state == ensure_court_state(kort_id)
        due == pop_due_selected(state, t) # ""
        below == state.command_error_streak < COMMAND_ERROR_PAUSE_THRESHOLD
        result == VisitResult(kort_id, t)
    IN  IF event.kind = "none" \/ event.first_sent # None THEN event
        ELSE [event EXCEPT
                 !.first_tick = IF @ = "" /\ t >= EventDeadline(event) THEN result ELSE @,
                 !.first_tick_stored =
                     IF @ = "" /\ t >= StoredDeadline(event) THEN result ELSE @,
                 !.resumed =
                     IF @ = "" /\ t >= EventDeadline(event) /\ due /\ below
                     THEN result ELSE @,
                 !.resumed_stored =
                     IF @ = "" /\ t >= StoredDeadline(event) /\ due /\ below
                     THEN result ELSE @]

\* A visit that looks the court up before it looks at the enabled flag.
visited_entries_always(entries, kort_id, result, value) == DictSet(entries, kort_id, value)

\* _update_once: a disabled court is skipped before ensure_snapshot_entry and
\* _ensure_court_state; any other visit stores the entry it worked on.
visited_entries(entries, kort_id, result, value) ==
    IF result = "disabled" THEN entries ELSE DictSet(entries, kort_id, value)

\* _update_once, one iteration of the loop over the links, up to the first
\* request it sends (the retry loop waits for admission first).
VisitCourt ==
    /\ pc = "pass"
    /\ kort_index \in 1..Len(Courts)
    /\ LET kort_id == Courts[kort_index]
           t == IF kort_index = 1 THEN current_time ELSE now
           link == links[kort_id]
           id == extract_controlapp_identifier(link.control)
           state == ensure_court_state(kort_id)
           entry == ensure_snapshot_entry(kort_id)
           result == VisitResult(kort_id, t)
           failed == handle_command_error(entry, state, ExtractErrorText, t, "", <<>>, now)
           counted == update_command_error_state(state, t, "")
           spec == pop_due_selected(state, t)
           popped == pop_due_command(state, t)
       IN  /\ current_time' = t
           /\ next_allowed_request_by_controlapp' =
                  IF result \in {"cooldown", "paused", "idle", "command"}
                  THEN cooldowns_after_check(next_allowed_request_by_controlapp, id, t)
                  ELSE next_allowed_request_by_controlapp
           /\ scheduled_max' =
                  [i \in ControlApps |->
                      IF next_allowed_request_by_controlapp'[i] = None THEN None
                      ELSE scheduled_max[i]]
           /\ cooldown_event' =
                  IF id \in ControlApps
                  THEN [cooldown_event EXCEPT ![id] = EventAfterVisit(@, kort_id, t)]
                  ELSE cooldown_event
           /\ IF result = "malformed"
              THEN /\ snapshots' =
                          visited_entries(snapshots, kort_id, result,
                              IF process_snapshot_archives(counted, failed)
                              THEN archive_snapshot(failed, failed) ELSE failed)
                   /\ court_states' =
                          visited_entries(court_states, kort_id, result,
                                          process_snapshot(counted, failed, t))
                   /\ outcome' = [outcome EXCEPT ![kort_id] =
                                     [NoOutcome EXCEPT !.kind = "malformed", !.t = t,
                                                       !.at = now, !.tick = tick_start,
                                                       !.prev = outcome[kort_id].kind,
                                                       !.before_status = entry.status,
                                                       !.before_error = entry.error]]
              ELSE /\ snapshots' = visited_entries(snapshots, kort_id, result, entry)
                   /\ outcome' = outcome
                   /\ court_states' =
                          visited_entries(court_states, kort_id, result,
                              IF result = "command" THEN select_command(popped, spec)
                              ELSE state)
           /\ IF result = "command"
              THEN /\ pc' = "throttle"
                   /\ controlapp_id' = id
                   /\ spec_name' = spec
                   /\ command' = select_command_result(popped, spec)
                   /\ attempt' = 0
                   /\ last_error' = NoneStr
                   /\ calls' = 0
                   /\ backoffs' = 0
                   /\ waited' = FALSE
                   /\ kort_index' = kort_index
              ELSE /\ pc' = "pass"
                   /\ kort_index' = kort_index + 1
                   /\ UNCHANGED <<controlapp_id, spec_name, command, attempt, last_error,
                                  calls, backoffs, waited>>
    /\ UNCHANGED <<engine_vars, now, last_request_by_controlapp, global_token_balance,
                   global_tokens_last_refill, admitted, links, server, tick_start, ticks,
                   requests>>

\* _update_once, _throttle_request(controlapp_identifier) before http.put: one
\* iteration of its loop; on admission the request is sent.
ThrottleStep ==
    /\ pc = "throttle"
    /\ requests < MaxRequests
    /\ requests' = IF ThrottleAdmits(controlapp_id, now) THEN requests + 1 ELSE requests
    /\ throttle_request(controlapp_id, "request", FALSE)
    /\ waited' = (waited \/ WaitForControlapp(controlapp_id, now) > 0
                          \/ ~GlobalAvailable(now))
    /\ calls' = IF ThrottleAdmits(controlapp_id, now) THEN calls + 1 ELSE calls
    /\ cooldown_event' =
           IF ThrottleAdmits(controlapp_id, now)
           THEN [cooldown_event EXCEPT
                    ![controlapp_id].first_sent = IF @ = None THEN now ELSE @]
           ELSE cooldown_event
    /\ scheduled_max' =
           [i \in ControlApps |->
               IF next_allowed_request_by_controlapp'[i] = None THEN None
               ELSE scheduled_max[i]]
    /\ UNCHANGED <<engine_vars, controlapp_id, pass_vars, backoffs, outcome>>

\* _update_once, the retry loop from the return of http.put: the outcome is
\* handled, and either the command ends (the snapshot is processed and the
\* loop over the links goes on) or the backoff sleep is taken and the loop
\* comes back to _throttle_request.
Respond(r) ==
    /\ pc = "request"
    /\ LET kort_id == Courts[kort_index]
           id == controlapp_id
           done == now + r.latency
           state == court_states[kort_id]
           entry == snapshots[kort_id]
           kind == OutcomeKind(r, attempt)
           response_time == IF r.raised = "" THEN done ELSE current_time
           quota == quota_resume(r, response_time)
           after_quota ==
               IF quota # None
               THEN schedule_controlapp_resume(next_allowed_request_by_controlapp, id, quota)
               ELSE next_allowed_request_by_controlapp
           cooldown_until ==
               IF kind = "404" THEN response_time + Seconds(NOT_FOUND_COOLDOWN_SECONDS)
               ELSE IF kind = "429" THEN rate_limit_cooldown(r, response_time)
               ELSE None
           error_seen == IF r.raised = "Timeout" THEN r.error_text
                         ELSE IF r.raised = "" /\ r.status >= 500
                              THEN format_http_error_details(r.status)
                         ELSE last_error
           error_text ==
               IF kind \in {"exception", "undecodable"} THEN r.error_text
               ELSE IF kind = "exhausted"
                    THEN IF error_seen \in {NoneStr, ""} THEN "brak dodatkowych informacji"
                         ELSE error_seen
               ELSE format_http_error_details(r.status)
           counted == update_command_error_state(state, response_time, spec_name)
           written ==
               IF kind = "ok"
               THEN merge_partial_payload(entry, map_command_response(command, r.body), done)
               ELSE IF kind = "429"
               THEN update_snapshot_pause_state(entry, counted, response_time, done)
               ELSE handle_command_error(entry, state, error_text, response_time, spec_name,
                                         IF kind = "404" THEN <<NOT_FOUND_BADGE>> ELSE <<>>,
                                         done)
           before_process == IF kind = "ok" THEN clear_pause(state) ELSE counted
       IN  /\ \E delay \in (IF kind = "retry" THEN calculate_retry_delay(attempt, r)
                             ELSE {0}) : now' = done + delay
           /\ next_allowed_request_by_controlapp' =
                  IF cooldown_until # None
                  THEN schedule_controlapp_resume(after_quota, id, cooldown_until)
                  ELSE after_quota
           /\ scheduled_max' =
                  [i \in ControlApps |->
                      IF i # id THEN scheduled_max[i]
                      ELSE Max2(Max2(IF next_allowed_request_by_controlapp[i] = None
                                     THEN None ELSE scheduled_max[i], quota),
                                cooldown_until)]
           /\ IF kind = "retry"
              THEN /\ pc' = "throttle"
                   /\ attempt' = attempt + 1
                   /\ backoffs' = backoffs + 1
                   /\ waited' = FALSE
                   /\ last_error' = error_seen
                   /\ current_time' = response_time
                   /\ UNCHANGED <<court_states, snapshots, kort_index, outcome,
                                  cooldown_event>>
              ELSE /\ pc' = "pass"
                   /\ kort_index' = kort_index + 1
                   /\ last_error' = error_seen
                   /\ current_time' = done
                   /\ court_states' =
                          [court_states EXCEPT ![kort_id] =
                              IF kind = "429" THEN counted
                              ELSE process_snapshot(before_process, written, done)]
                   /\ snapshots' =
                          [snapshots EXCEPT ![kort_id] =
                              IF kind # "429" /\ process_snapshot_archives(before_process, written)
                              THEN archive_snapshot(written, written) ELSE written]
                   /\ outcome' =
                          [outcome EXCEPT ![kort_id] =
                              [kind |-> kind, t |-> response_time, at |-> done,
                               tick |-> tick_start, attempt |-> attempt,
                               status |-> r.status, quota |-> quota,
                               prev |-> outcome[kort_id].kind,
                               before_status |-> entry.status,
                               before_error |-> entry.error]]
                   /\ cooldown_event' =
                          IF kind \in {"429", "404"}
                          THEN [cooldown_event EXCEPT ![id] =
                                   [NoEvent EXCEPT
                                       !.kind = kind, !.t = response_time,
                                       !.retry_after = parse_retry_after(r.retry_after),
                                       !.reset = parse_rate_limit_reset(r, response_time),
                                       !.quota = quota]]
                          ELSE cooldown_event
                   /\ UNCHANGED <<attempt, backoffs, waited>>
    /\ UNCHANGED <<engine_vars, controlapp_id, last_request_by_controlapp, global_token_balance,
                   global_tokens_last_refill, admitted, links, server, tick_start, ticks,
                   spec_name, command, requests, calls>>

\* The times the runner can wake for the next tick: the end of the update
\* interval, or later when time.sleep oversleeps, here to the second before
\* the first pending cooldown or pause deadline.
WakeTimes ==
    LET base == Max2(now, tick_start + Seconds(UPDATE_INTERVAL_SECONDS))
        deadlines ==
            {next_allowed_request_by_controlapp[i] : i \in ControlApps}
                \cup {court_states[k].paused_until : k \in DOMAIN court_states}
                \cup {court_states[k].availability_paused_until : k \in DOMAIN court_states}
        pending == {d \in deadlines : d - Seconds(1) > base}
    IN  {base} \cup {d - Seconds(1) : d \in {e \in pending : \A f \in pending : e <= f}}

\* _update_once returns; runner sleeps max(0, UPDATE_INTERVAL_SECONDS - elapsed).
TickEnd ==
    /\ pc = "pass"
    /\ kort_index > Len(Courts)
    /\ pc' = "runner"
    /\ kort_index' = 0
    /\ \E wake \in WakeTimes : now' = wake
    /\ UNCHANGED <<engine_vars, controlapp_id, throttle_vars, admitted, links, server, court_states,
                   snapshots, tick_start, ticks, current_time, spec_name, command, attempt,
                   last_error, history_vars>>

Next ==
    \/ TickBegin
    \/ VisitCourt
    \/ ThrottleStep
    \/ \E r \in Outcomes(server, command) : Respond(r)
    \/ TickEnd

Spec == Init /\ [][Next]_vars

\* ------------------------------------------- rate limiter specification
\* The rate limiter alone, called for any control-app id at any time of a
\* non-decreasing clock: the callers are the scheduler thread's requests.

ThrottleHorizon == StartTime + Seconds(ThrottleHorizonSeconds)

ThrottleInit ==
    /\ now = StartTime
    /\ pc = "idle"
    /\ controlapp_id = "first"
    /\ last_request_by_controlapp = [id \in ControlApps |-> None]
    /\ next_allowed_request_by_controlapp = [id \in ControlApps |-> None]
    /\ global_token_balance = BucketCapacity
    /\ global_tokens_last_refill = StartTime
    /\ admitted = <<>>
    /\ links = [k \in CourtIds |-> [enabled |-> TRUE, control |-> ControlUrl(k)]]
    /\ server = "client"
    /\ court_states = [k \in CourtIds |-> CourtState(k)]
    /\ snapshots = [k \in CourtIds |-> NewSnapshotEntry(k)]
    /\ tick_start = StartTime
    /\ ticks = 0
    /\ current_time = StartTime
    /\ kort_index = 0
    /\ spec_name = ""
    /\ command = ""
    /\ attempt = 0
    /\ last_error = NoneStr
    /\ requests = 0
    /\ calls = 0
    /\ backoffs = 0
    /\ waited = FALSE
    /\ outcome = [k \in CourtIds |-> NoOutcome]
    /\ cooldown_event = [id \in ControlApps |-> NoEvent]
    /\ scheduled_max = [id \in ControlApps |-> None]
    /\ op = NoOp
    /\ appended = <<>>
    /\ occurrence_appends = 0
    /\ trace = <<>>

\* A request for id reaches _throttle_request.
ThrottleCall(id) ==
    /\ pc = "idle"
    /\ pc' = "throttle"
    /\ controlapp_id' = id
    /\ UNCHANGED <<engine_vars, now, throttle_vars, admitted, pass_vars, history_vars>>

ThrottleLoop ==
    /\ pc = "throttle"
    /\ now <= ThrottleHorizon
    /\ throttle_request(controlapp_id, "idle", TRUE)
    /\ UNCHANGED <<engine_vars, controlapp_id, pass_vars, history_vars>>

\* Time passes between two requests.
ThrottleClock ==
    /\ pc = "idle"
    /\ now < ThrottleHorizon
    /\ now' = now + 1
    /\ UNCHANGED <<engine_vars, pc, controlapp_id, throttle_vars, admitted, pass_vars, history_vars>>

ThrottleNext ==
    \/ \E id \in ControlApps : ThrottleCall(id)
    \/ ThrottleLoop
    \/ ThrottleClock

SpecThrottle == ThrottleInit /\ [][ThrottleNext]_vars

\* ------------------------------------------ snapshot engine specifications
\* The snapshot engine alone, for one court: how a command of a tick ends
\* (the mapped response is merged, or the error is recorded) and the
\* processing of the snapshot that follows in the same tick. SpecEngine
\* takes every response for a few ticks; SpecMatch follows a match through
\* FINISHED and back over more ticks, without the tie-break commands.
MaxEngineTicks == 4

MaxMatchTicks == 7

\* The court and the snapshot before the first tick.
EngineInit == ThrottleInit

\* The commands the engine sends and bodies the overlay answers them with;
\* a body names the field it carries.
EngineResponses ==
    {<<"GetNamePlayerA", [x \in {"NamePlayerA"} |-> name]>> : name \in {"Ann", "Cid", ""}}
        \cup {<<"GetNamePlayerB", [x \in {"NamePlayerB"} |-> "Bob"]>>,
              <<"GetPointsPlayerA", [x \in {"PointsPlayerA"} |-> "15"]>>,
              <<"GetTieBreakPlayerA", [x \in {"TieBreakPlayerA"} |-> ""]>>,
              <<"GetTieBreakPlayerB", [x \in {"TieBreakPlayerB"} |-> ""]>>,
              <<"GetSet", [x \in {"Set1PlayerA", "Set1PlayerB", "Set2PlayerA",
                                  "Set2PlayerB"} |->
                              CASE x = "Set1PlayerA" -> "6"
                                [] x = "Set1PlayerB" -> "4"
                                [] x = "Set2PlayerA" -> "6"
                                [] x = "Set2PlayerB" -> "3"]>>}

MatchResponses ==
    {response \in EngineResponses :
        response[1] \notin {"GetTieBreakPlayerA", "GetTieBreakPlayerB"}}

\* _update_once from the end of the retry loop: written is the snapshot the
\* command left, state the court state with the error counted or the pause
\* cleared; _process_snapshot follows when final_snapshot is set. The ticks
\* in which the court is paused leave both alone: the clock moves on to the
\* first tick that sends a command again.
EngineStep(kind, partial, state, written, processed, max_ticks) ==
    LET k == Courts[1]
        desired == classify_phase(written, stabilized(state, written),
                                  compute_score_snapshot(written))
        archives == processed /\ process_snapshot_archives(state, written)
        entry == IF archives THEN archive_snapshot(written, written) ELSE written
        after == IF processed THEN process_snapshot(state, written, now) ELSE state
        delta == Len(entry.archive) - Len(snapshots[k].archive)
        tick_end == now + Seconds(UPDATE_INTERVAL_SECONDS)
    IN  /\ ticks < max_ticks
        /\ ticks' = ticks + 1
        /\ court_states' = [court_states EXCEPT ![k] = after]
        /\ snapshots' = [snapshots EXCEPT ![k] = entry]
        /\ op' = [kind |-> kind, partial |-> partial,
                  desired |-> IF processed THEN desired ELSE "",
                  previous_phase |-> court_states[k].phase]
        /\ occurrence_appends' =
               IF after.phase = FINISHED /\ court_states[k].phase # FINISHED THEN delta
               ELSE occurrence_appends + delta
        /\ now' = IF is_paused(after, tick_end) THEN effective_pause_until(after)
                  ELSE tick_end
        /\ UNCHANGED <<pc, controlapp_id, throttle_vars, admitted, links, server,
                       tick_start, current_time, kort_index, spec_name, command, attempt,
                       last_error, history_vars, appended, trace>>

\* A 2xx with a decodable body: _map_command_response, _merge_partial_payload,
\* clear_pause, _process_snapshot.
EngineMerge(responses, max_ticks) ==
    \E response \in responses :
        LET k == Courts[1]
            partial == map_command_response(response[1], response[2])
        IN  EngineStep("merge", partial, clear_pause(court_states[k]),
                       merge_partial_payload(snapshots[k], partial, now), TRUE, max_ticks)

\* A command that ends in an error (404, or a 5xx after the last retry):
\* _handle_command_error, _process_snapshot.
EngineError(statuses, max_ticks) ==
    \E status \in statuses :
        LET k == Courts[1]
        IN  EngineStep("error", EmptyDict,
                       update_command_error_state(court_states[k], now, ""),
                       handle_command_error(snapshots[k], court_states[k],
                                            format_http_error_details(status), now, "",
                                            IF status = 404 THEN <<NOT_FOUND_BADGE>>
                                            ELSE <<>>, now),
                       TRUE, max_ticks)

\* A 429: the error is counted, the pause fields are refreshed and the
\* snapshot is not processed.
EngineRateLimited(max_ticks) ==
    LET k == Courts[1]
        counted == update_command_error_state(court_states[k], now, "")
    IN  EngineStep("429", EmptyDict, counted,
                   update_snapshot_pause_state(snapshots[k], counted, now, now), FALSE,
                   max_ticks)

EngineNext ==
    \/ EngineMerge(EngineResponses, MaxEngineTicks)
    \/ EngineError({404, 500}, MaxEngineTicks)
    \/ EngineRateLimited(MaxEngineTicks)

SpecEngine == EngineInit /\ [][EngineNext]_vars

MatchNext ==
    \/ EngineMerge(MatchResponses, MaxMatchTicks)
    \/ EngineError({404}, MaxMatchTicks)

SpecMatch == EngineInit /\ [][MatchNext]_vars

\* ------------------------------------------------- archive specification
\* _archive_snapshot called over and over for one court with its snapshot
\* of the moment, which one merge changes on the way.
MaxAppends == 52

\* _archive_snapshot(kort_id, snapshot) at a new time.
ArchiveAppend ==
    LET k == Courts[1]
        snapshot == [snapshots[k] EXCEPT !.last_updated = now]
    IN  /\ Len(appended) < MaxAppends
        /\ snapshots' = [snapshots EXCEPT ![k] = archive_snapshot(@, snapshot)]
        /\ appended' = Append(appended, now)
        /\ op' = [NoOp EXCEPT !.kind = "append"]
        /\ now' = now + 1
        /\ UNCHANGED <<pc, controlapp_id, throttle_vars, admitted, links, server,
                       court_states, tick_start, ticks, current_time, kort_index,
                       spec_name, command, attempt, last_error, history_vars,
                       occurrence_appends, trace>>

\* The first name of the court arrives.
ArchiveMerge ==
    LET k == Courts[1]
        partial == map_command_response("GetNamePlayerA", [x \in {"NamePlayerA"} |-> "Ann"])
    IN  /\ snapshots[k].raw = EmptyDict
        /\ snapshots' = [snapshots EXCEPT ![k] = merge_partial_payload(@, partial, now)]
        /\ op' = [NoOp EXCEPT !.kind = "merge", !.partial = partial]
        /\ now' = now + 1
        /\ UNCHANGED <<pc, controlapp_id, throttle_vars, admitted, links, server,
                       court_states, tick_start, ticks, current_time, kort_index,
                       spec_name, command, attempt, last_error, history_vars, appended,
                       occurrence_appends, trace>>

ArchiveNext ==
    \/ ArchiveAppend
    \/ ArchiveMerge

SpecArchive == EngineInit /\ [][ArchiveNext]_vars

\* ------------------------------------------------- steady-snapshot specification
\* The phase-cycle test feeds _process_snapshot whole snapshots: a template
\* replaces the stored entry (the archive is kept) and is then processed tick
\* after tick. Here a first template is processed for some ticks and a second,
\* fully populated one for the rest of the run.

MaxPreludeTicks == 3

MaxSteadyTicks == 5

\* The state right after construction, but for the clock, the court states,
\* the snapshot entries and the record of the last operation.
EngineInitWith(start, states, entries, first) ==
    /\ now = start
    /\ pc = "idle"
    /\ controlapp_id = "first"
    /\ last_request_by_controlapp = [id \in ControlApps |-> None]
    /\ next_allowed_request_by_controlapp = [id \in ControlApps |-> None]
    /\ global_token_balance = BucketCapacity
    /\ global_tokens_last_refill = start
    /\ admitted = <<>>
    /\ links = [k \in CourtIds |-> [enabled |-> TRUE, control |-> ControlUrl(k)]]
    /\ server = "client"
    /\ court_states = states
    /\ snapshots = entries
    /\ tick_start = start
    /\ ticks = 0
    /\ current_time = start
    /\ kort_index = 0
    /\ spec_name = ""
    /\ command = ""
    /\ attempt = 0
    /\ last_error = NoneStr
    /\ requests = 0
    /\ calls = 0
    /\ backoffs = 0
    /\ waited = FALSE
    /\ outcome = [k \in CourtIds |-> NoOutcome]
    /\ cooldown_event = [id \in ControlApps |-> NoEvent]
    /\ scheduled_max = [id \in ControlApps |-> None]
    /\ op = first
    /\ appended = <<>>
    /\ occurrence_appends = 0
    /\ trace = <<>>

\* A flat field map from its <<key, value>> pairs.
Fields(pairs) ==
    [key \in {pairs[i][1] : i \in 1..Len(pairs)} |->
        (CHOOSE pair \in {pairs[i] : i \in 1..Len(pairs)} : pair[1] = key)[2]]

NameTemplates ==
    {Fields(<<<<"NamePlayerA", name>>, <<"NamePlayerB", "Bob">>>>) : name \in {"Ann", "Cid"}}

ScoreTemplates ==
    LET zero == <<<<"PointsPlayerA", "0">>, <<"PointsPlayerB", "0">>>>
        points == <<<<"PointsPlayerA", "15">>, <<"PointsPlayerB", "0">>>>
        games == <<<<"CurrentGamePlayerA", "2">>, <<"CurrentGamePlayerB", "1">>>>
        set1 == <<<<"Set1PlayerA", "6">>, <<"Set1PlayerB", "4">>>>
        set2 == <<<<"Set2PlayerA", "6">>, <<"Set2PlayerB", "3">>>>
    IN  {Fields(pairs) : pairs \in
            {<<>>, zero, points, zero \o games, set1, set1 \o set2,
             set1 \o set2 \o points, set1 \o <<<<"TieBreak", "1">>>>,
             set1 \o set2 \o <<<<"SuperTieBreak", "1">>>>}}

\* What fake_merge stores for a template: the entry built from its fields.
TemplateEntry(k, fields, now_value) ==
    merge_partial_payload(NewSnapshotEntry(k), fields, now_value)

Templates == {DictUpdate(names, score) : names \in NameTemplates, score \in ScoreTemplates}

PreludeTemplates ==
    {fields \in Templates :
        ~\E key \in {"TieBreak", "SuperTieBreak", "PointsPlayerB"} : key \in DOMAIN fields}
        \cup {DictUpdate(names, Fields(<<<<"PointsPlayerA", "15">>, <<"PointsPlayerB", "0">>>>)) :
                names \in NameTemplates}

\* Fully populated: status ok with both names.
SteadyTemplates ==
    {fields \in Templates :
        TemplateEntry(Courts[1], fields, StartTime).status = SNAPSHOT_STATUS_OK}

SteadyInit ==
    \E first \in PreludeTemplates : \E second \in SteadyTemplates :
        EngineInitWith(StartTime, [k \in CourtIds |-> CourtState(k)],
                       [k \in CourtIds |-> TemplateEntry(k, first, StartTime)],
                       [NoOp EXCEPT !.kind = "prelude", !.partial = second])

\* One tick of _update_once under fake_merge: the stored template is processed.
\* The first steady tick stores the second template before processing it.
SnapshotTick(steady) ==
    LET k == Courts[1]
        state == court_states[k]
        stored == IF steady /\ op.kind = "prelude"
                  THEN [TemplateEntry(k, op.partial, now) EXCEPT
                           !.archive = snapshots[k].archive]
                  ELSE snapshots[k]
        after == process_snapshot(state, stored, now)
        entry == IF process_snapshot_archives(state, stored)
                 THEN archive_snapshot(stored, stored) ELSE stored
    IN  /\ IF steady THEN ticks < MaxPreludeTicks + MaxSteadyTicks
           ELSE op.kind = "prelude" /\ ticks < MaxPreludeTicks
        /\ ticks' = ticks + 1
        /\ court_states' = [court_states EXCEPT ![k] = after]
        /\ snapshots' = [snapshots EXCEPT ![k] = entry]
        /\ op' = [op EXCEPT !.kind = IF steady THEN "steady" ELSE "prelude",
                            !.desired = classify_phase(stored, stabilized(state, stored),
                                                       compute_score_snapshot(stored)),
                            !.previous_phase = state.phase]
        /\ trace' = IF ~steady \/ after.name_stability < NAME_STABILIZATION_TICKS THEN trace
                    ELSE IF trace = <<>> THEN <<state.phase, after.phase>>
                    ELSE Append(trace, after.phase)
        /\ now' = now + Seconds(UPDATE_INTERVAL_SECONDS)
        /\ UNCHANGED <<pc, controlapp_id, throttle_vars, admitted, links, server,
                       tick_start, current_time, kort_index, spec_name, command, attempt,
                       last_error, history_vars, appended, occurrence_appends>>

PreludeTick == SnapshotTick(FALSE)

SteadyTick == SnapshotTick(TRUE)

SteadyNext ==
    \/ PreludeTick
    \/ SteadyTick

SpecSteady == SteadyInit /\ [][SteadyNext]_vars

\* ----------------------------------------------------- classifier specification
\* _classify_phase as a function of its three arguments: Init draws a snapshot
\* (status and names), a court state (phase and counters) and a score snapshot
\* whose streaks agree with it, and the one action classifies them.

MaxSets == 3

MaxStreak == 2

Phases ==
    {IDLE_NAMES, PRE_START, LIVE_POINTS, LIVE_GAMES, TIEBREAK7, LIVE_SETS, SUPER_TB10, FINISHED}

\* The set counts compute_score_snapshot can give for up to MaxSets sets, each
\* won by A, won by B, level, or with one side missing.
SetTallies ==
    {[total |-> a + b + level + open, completed |-> a + b + level, won |-> <<a, b>>] :
        a \in 0..MaxSets, b \in 0..MaxSets, level \in 0..1, open \in 0..1}

ScoreInputs ==
    {[points_known |-> points # "unknown",
      points_any |-> points # "unknown",
      points_positive |-> points = "positive",
      points_zero |-> points = "zero",
      games_known |-> games # "unknown",
      games_any |-> games # "unknown",
      games_positive |-> games = "positive",
      sets_present |-> tally.total > 0,
      sets_completed |-> tally.completed,
      total_sets |-> tally.total,
      sets_won |-> tally.won,
      tie_break_active |-> flag = "tie_break",
      super_tb_active |-> flag = "super_tb"] :
        points \in {"unknown", "zero", "positive"}, games \in {"unknown", "zero", "positive"},
        flag \in {"none", "tie_break", "super_tb"},
        tally \in {t \in SetTallies : t.total <= MaxSets}}

\* The court states _process_snapshot can hand to the classifier with a
\* snapshot of these names and this score: the counters are the ones
\* update_name_stability and update_score_stability leave.
ClassifierStates(k, names, score) ==
    {[transition(CourtState(k), phase, StartTime) EXCEPT
         !.name_stability = stability,
         !.points_positive_streak = positive,
         !.points_absent_streak = absent] :
        phase \in Phases,
        stability \in IF DOMAIN names = {"NamePlayerA", "NamePlayerB"}
                      THEN 1..NAME_STABILIZATION_TICKS ELSE {0},
        positive \in IF score.points_positive THEN 1..MaxStreak ELSE {0},
        absent \in IF score.sets_present /\ ~score.points_any THEN 1..MaxStreak ELSE {0}}

ClassifyInit ==
    \E names \in {EmptyDict, [x \in {"NamePlayerA"} |-> "Ann"],
                   Fields(<<<<"NamePlayerA", "Ann">>, <<"NamePlayerB", "Bob">>>>)} :
    \E status \in {SNAPSHOT_STATUS_OK, SNAPSHOT_STATUS_NO_DATA, SNAPSHOT_STATUS_UNAVAILABLE} :
    \E score \in ScoreInputs :
    \E state \in ClassifierStates(Courts[1], names, score) :
        EngineInitWith(StartTime, [k \in CourtIds |-> state],
                       [k \in CourtIds |->
                           [TemplateEntry(k, names, StartTime) EXCEPT !.status = status]],
                       [kind |-> "input", partial |-> names, desired |-> "",
                        previous_phase |-> state.phase, score |-> score])

\* desired_phase = _classify_phase(snapshot, state, score_snapshot)
Classify ==
    LET k == Courts[1]
    IN  /\ op.kind = "input"
        /\ op' = [op EXCEPT !.kind = "classified",
                            !.desired = classify_phase(snapshots[k], court_states[k],
                                                       op.score)]
        /\ UNCHANGED <<now, pc, controlapp_id, throttle_vars, admitted, pass_vars,
                       history_vars, appended, occurrence_appends, trace>>

ClassifyNext == Classify

SpecClassify == ClassifyInit /\ [][ClassifyNext]_vars

\* ------------------------------------------------------ schedule specification
\* CourtState.pop_due_command and _select_command, called tick after tick as
\* _update_once and test_name_stabilization_triggers_points_schedule_and_
\* snapshot_completion call them, with ticks one second or a pause apart and
\* a phase transition in between.

MaxScheduleTicks == 6

MaxTransitions == 1

MaxPauseSeconds == 7

\* The phase offsets: the one the test sets and _default_offset(kort_id).
PhaseOffsets == {0, default_offset(Courts[1])}

\* The clock at the first tick is 0.0 as in the tests, or the time of day; the
\* schedules of a new CourtState are laid out from 0.0 in both cases.
ScheduleInit ==
    \E offset \in PhaseOffsets : \E start \in {0, StartTime} :
        EngineInitWith(
            start,
            [k \in CourtIds |->
                [CourtState(k) EXCEPT
                    !.phase_offset = offset,
                    !.command_schedules = configure_phase_commands(IDLE_NAMES, offset, 0)]],
            [k \in CourtIds |-> NewSnapshotEntry(k)],
            [kind |-> "none", spec |-> "", command |-> "", transitions |-> 0])

\* _update_once from pop_due_command to _select_command, and the time to the
\* next tick. The run is recorded with its time, phase and command.
ScheduleTickWithin(seconds, limit) ==
    LET k == Courts[1]
        state == court_states[k]
        selected == pop_due_selected(state, now)
        popped == pop_due_command(state, now)
        issued == IF selected = "" THEN "" ELSE select_command_result(popped, selected)
        after == IF selected = "" THEN state ELSE select_command(popped, selected)
    IN  /\ ticks < limit
        /\ ticks' = ticks + 1
        /\ court_states' = [court_states EXCEPT ![k] = after]
        /\ op' = [op EXCEPT !.kind = IF selected = "" THEN "idle" ELSE "run",
                            !.spec = selected, !.command = issued]
        /\ trace' = IF selected = "" THEN trace
                    ELSE Append(trace, [time |-> now, spec |-> selected, command |-> issued,
                                        phase |-> state.phase, epoch |-> op.transitions])
        /\ now' = now + Seconds(seconds)
        /\ UNCHANGED <<pc, controlapp_id, throttle_vars, admitted, links, server, snapshots,
                       tick_start, current_time, kort_index, spec_name, command, attempt,
                       last_error, history_vars, appended, occurrence_appends>>

ScheduleTick(seconds) == ScheduleTickWithin(seconds, MaxScheduleTicks)

\* state.transition(phase, now), as _process_snapshot calls it.
ScheduleTransition(phase) ==
    LET k == Courts[1]
    IN  /\ op.transitions < MaxTransitions
        /\ phase # court_states[k].phase
        /\ court_states' = [court_states EXCEPT ![k] = transition(@, phase, now)]
        /\ op' = [op EXCEPT !.kind = "transition", !.transitions = @ + 1]
        /\ UNCHANGED <<now, pc, controlapp_id, throttle_vars, admitted, links, server,
                       snapshots, tick_start, ticks, current_time, kort_index, spec_name,
                       command, attempt, last_error, history_vars, appended,
                       occurrence_appends, trace>>

ScheduleNext ==
    \/ \E seconds \in {UPDATE_INTERVAL_SECONDS, MaxPauseSeconds} : ScheduleTick(seconds)
    \/ \E phase \in Phases : ScheduleTransition(phase)

SpecSchedule == ScheduleInit /\ [][ScheduleNext]_vars

\* ------------------------------------------------------ plan specification
\* One court that has just entered a phase, ticked long enough for the plan of
\* a scheduled command to be expanded more than twice.
MaxPlanTicks == 12

PlanInit ==
    \E offset \in PhaseOffsets : \E phase \in Phases :
        EngineInitWith(
            StartTime,
            [k \in CourtIds |->
                LET created == [CourtState(k) EXCEPT
                                   !.phase_offset = offset,
                                   !.command_schedules =
                                       configure_phase_commands(IDLE_NAMES, offset, 0)]
                IN  IF phase = IDLE_NAMES THEN created
                    ELSE transition(created, phase, StartTime)],
            [k \in CourtIds |-> NewSnapshotEntry(k)],
            [kind |-> "none", spec |-> "", command |-> "", transitions |-> 0])

PlanTick(seconds) == ScheduleTickWithin(seconds, MaxPlanTicks)

PlanNext == \E seconds \in {UPDATE_INTERVAL_SECONDS, MaxPauseSeconds} : PlanTick(seconds)

SpecPlan == PlanInit /\ [][PlanNext]_vars

\* ---------------------------------------------------- phase-change specification
\* A court that entered any phase at the start, the ticks that pop and select
\* its commands, and the transitions _process_snapshot makes in between.

MaxPhaseTicks == 4

PhaseTick(seconds) == ScheduleTickWithin(seconds, MaxPhaseTicks)

PhaseNext ==
    \/ \E seconds \in {UPDATE_INTERVAL_SECONDS, MaxPauseSeconds} : PhaseTick(seconds)
    \/ \E phase \in Phases : ScheduleTransition(phase)

SpecPhases == PlanInit /\ [][PhaseNext]_vars

\* -------------------------------------------------- supplier specification
\* _update_once from an empty court_states and an empty snapshots, as for a
\* court that was not in the links when start_background_updater created the
\* entries, over a server that answers or rate-limits, with the enabled flag
\* of the court changing between ticks.
MaxLinkChanges == 1

SupplierInit ==
    /\ now = StartTime
    /\ pc = "runner"
    /\ controlapp_id = "first"
    /\ last_request_by_controlapp = [id \in ControlApps |-> None]
    /\ next_allowed_request_by_controlapp = [id \in ControlApps |-> None]
    /\ global_token_balance = BucketCapacity
    /\ global_tokens_last_refill = StartTime
    /\ admitted = <<>>
    /\ links \in [CourtIds -> UNION {LinkChoices(k) : k \in CourtIds}]
    /\ \A k \in CourtIds : links[k] \in LinkChoices(k) /\ links[k].control = ControlUrl(k)
    /\ server \in {"client", "rate"}
    /\ court_states = EmptyDict
    /\ snapshots = EmptyDict
    /\ tick_start = StartTime
    /\ ticks = 0
    /\ current_time = StartTime
    /\ kort_index = 0
    /\ spec_name = ""
    /\ command = ""
    /\ attempt = 0
    /\ last_error = NoneStr
    /\ requests = 0
    /\ calls = 0
    /\ backoffs = 0
    /\ waited = FALSE
    /\ outcome = [k \in CourtIds |-> NoOutcome]
    /\ cooldown_event = [id \in ControlApps |-> NoEvent]
    /\ scheduled_max = [id \in ControlApps |-> None]
    /\ op = [kind |-> "none", changes |-> 0]
    /\ appended = <<>>
    /\ occurrence_appends = 0
    /\ trace = <<>>

\* The enabled flag of a court edited between two ticks: the next
\* overlay_links_supplier() call of _update_once returns the new value.
LinksChange(kort_id) ==
    /\ pc = "runner"
    /\ op.changes < MaxLinkChanges
    /\ links' = [links EXCEPT ![kort_id].enabled = ~@]
    /\ op' = [kind |-> "links", changes |-> op.changes + 1]
    /\ UNCHANGED <<now, pc, controlapp_id, throttle_vars, admitted, server, court_states,
                   snapshots, tick_start, ticks, current_time, kort_index, spec_name,
                   command, attempt, last_error, history_vars, appended,
                   occurrence_appends, trace>>

SupplierNext ==
    \/ TickBegin
    \/ VisitCourt
    \/ ThrottleStep
    \/ \E r \in Outcomes(server, command) : Respond(r)
    \/ TickEnd
    \/ \E k \in CourtIds : LinksChange(k)

SpecSupplier == SupplierInit /\ [][SupplierNext]_vars

\* ----------------------------------------------------- quota specification
\* The scheduler over a server whose responses, of any status, can carry an
\* exhausted daily quota (X-Singular-RateLimit-Daily-Calls with remaining=0).
QuotaInit ==
    /\ now = StartTime
    /\ pc = "runner"
    /\ controlapp_id = "first"
    /\ last_request_by_controlapp = [id \in ControlApps |-> None]
    /\ next_allowed_request_by_controlapp = [id \in ControlApps |-> None]
    /\ global_token_balance = BucketCapacity
    /\ global_tokens_last_refill = StartTime
    /\ admitted = <<>>
    /\ links = [k \in CourtIds |-> [enabled |-> TRUE, control |-> ControlUrl(k)]]
    /\ server = "quota"
    /\ court_states = [k \in CourtIds |-> CourtState(k)]
    /\ snapshots = [k \in CourtIds |-> NewSnapshotEntry(k)]
    /\ tick_start = StartTime
    /\ ticks = 0
    /\ current_time = StartTime
    /\ kort_index = 0
    /\ spec_name = ""
    /\ command = ""
    /\ attempt = 0
    /\ last_error = NoneStr
    /\ requests = 0
    /\ calls = 0
    /\ backoffs = 0
    /\ waited = FALSE
    /\ outcome = [k \in CourtIds |-> NoOutcome]
    /\ cooldown_event = [id \in ControlApps |-> NoEvent]
    /\ scheduled_max = [id \in ControlApps |-> None]
    /\ op = NoOp
    /\ appended = <<>>
    /\ occurrence_appends = 0
    /\ trace = <<>>

SpecQuota == QuotaInit /\ [][Next]_vars

\* ------------------------------------------------------ overlay specification
\* The scheduler pass over a court that has been polled before. In the first
\* history its match has finished while its overlay was hidden: the two
\* names, the visibility probe answered False, the set scores, and the second
\* name again, each after the availability pause of the one before had run
\* out. In the second the overlay is visible, the names have just settled
\* and the court has entered PRE_START.
OverlayExchanges(first_name) ==
    << <<"GetNamePlayerA", ValueBody(first_name), Seconds(100)>>,
       <<"GetNamePlayerB", ValueBody("Bob"), Seconds(101)>>,
       <<"GetOverlayVisibility", ValueBody("False"), Seconds(102)>>,
       <<"GetSet", Fields(<<<<"Set1PlayerA", "6">>, <<"Set1PlayerB", "4">>,
                            <<"Set2PlayerA", "6">>, <<"Set2PlayerB", "3">>>>), Seconds(170)>>,
       <<"GetNamePlayerB", ValueBody("Bob"), Seconds(235)>> >>

StartedExchanges ==
    << <<"GetNamePlayerA", ValueBody("Ann"), Seconds(100)>>,
       <<"GetOverlayVisibility", ValueBody("True"), Seconds(101)>>,
       <<"GetNamePlayerB", ValueBody("Bob"), Seconds(102)>>,
       <<"GetNamePlayerA", ValueBody("Ann"), Seconds(103)>>,
       <<"GetNamePlayerB", ValueBody("Bob"), Seconds(105)>> >>

RECURSIVE AfterExchanges(_, _, _)
\* The court state and the snapshot after the first n exchanges: the merge
\* of the response, clear_pause and _process_snapshot at the time of each.
AfterExchanges(kort_id, exchanges, n) ==
    IF n = 0 THEN <<CourtState(kort_id), NewSnapshotEntry(kort_id)>>
    ELSE LET before == AfterExchanges(kort_id, exchanges, n - 1)
             exchange == exchanges[n]
             written == merge_partial_payload(
                            before[2], map_command_response(exchange[1], exchange[2]),
                            exchange[3])
             cleared == clear_pause(before[1])
         IN  <<process_snapshot(cleared, written, exchange[3]),
               IF process_snapshot_archives(cleared, written)
               THEN archive_snapshot(written, written) ELSE written>>

\* The first tick of the specification is the one at which the availability
\* pause of the last exchange runs out.
OverlayStart == Seconds(235 + UNAVAILABLE_SLOW_POLL_SECONDS)

\* The histories and the time of the first tick after each.
OverlayCases ==
    {[exchanges |-> OverlayExchanges(first_name), start |-> OverlayStart] :
        first_name \in {"Ann", "Cid"}}
        \cup {[exchanges |-> StartedExchanges, start |-> Seconds(106)]}

OverlayInit ==
    \E case \in OverlayCases :
        LET exchanges == case.exchanges
            last == exchanges[Len(exchanges)]
        IN  /\ now = case.start
            /\ pc = "runner"
            /\ controlapp_id = "first"
            /\ last_request_by_controlapp =
                   [id \in ControlApps |->
                       IF id = extract_controlapp_identifier(ControlUrl(Courts[1]))
                       THEN last[3] ELSE None]
            /\ next_allowed_request_by_controlapp = [id \in ControlApps |-> None]
            /\ global_token_balance = BucketCapacity
            /\ global_tokens_last_refill = last[3]
            /\ admitted = <<>>
            /\ links = [k \in CourtIds |-> [enabled |-> TRUE, control |-> ControlUrl(k)]]
            /\ server = "rate"
            /\ court_states = [k \in CourtIds |-> AfterExchanges(k, exchanges, Len(exchanges))[1]]
            /\ snapshots = [k \in CourtIds |-> AfterExchanges(k, exchanges, Len(exchanges))[2]]
            /\ tick_start = case.start
            /\ ticks = 0
            /\ current_time = case.start
            /\ kort_index = 0
            /\ spec_name = ""
            /\ command = ""
            /\ attempt = 0
            /\ last_error = NoneStr
            /\ requests = 0
            /\ calls = 0
            /\ backoffs = 0
            /\ waited = FALSE
            /\ outcome = [k \in CourtIds |->
                              [NoOutcome EXCEPT !.kind = "ok", !.t = last[3], !.at = last[3],
                                                !.tick = last[3], !.status = 200]]
            /\ cooldown_event = [id \in ControlApps |-> NoEvent]
            /\ scheduled_max = [id \in ControlApps |-> None]
            /\ op = NoOp
            /\ appended = <<>>
            /\ occurrence_appends = 0
            /\ trace = <<>>

SpecOverlay == OverlayInit /\ [][Next]_vars

\* -------------------------------------------------------- probe specification
\* A court that stays in IDLE_NAMES (its names never settle) under the runner
\* loop, which never ends: one tick per UPDATE_INTERVAL_SECONDS, skipped
\* while the availability pause lasts. The overlay is hidden or visible as the
\* operator sets it; the snapshot knows what the last ProbeAvailability
\* response said. The clock of this specification stands at ProbeNow and the
\* timestamps of the court move back by the length of each tick instead, which
\* is the same to pop_due_command, mark_run and is_paused; a timestamp further
\* back than MaxOverdueSeconds is kept at that distance.

MaxOverdueSeconds == 150

ProbeNow == Seconds(MaxOverdueSeconds + 100)

Aged(t, elapsed) ==
    IF t = None THEN None
    ELSE IF t - elapsed < ProbeNow - Seconds(MaxOverdueSeconds)
         THEN ProbeNow - Seconds(MaxOverdueSeconds)
    ELSE t - elapsed

\* The court state seen from a clock that has moved on by elapsed.
AgedState(state, elapsed) ==
    [state EXCEPT
        !.availability_paused_until = Aged(@, elapsed),
        !.command_schedules =
            [n \in DOMAIN @ |->
                [@[n] EXCEPT !.next_due = Aged(@, elapsed), !.last_run = Aged(@, elapsed)]]]

ProbeInit ==
    \E offset \in PhaseOffsets : \E overlay \in {"True", "False"} :
        EngineInitWith(
            ProbeNow,
            [k \in CourtIds |->
                [CourtState(k) EXCEPT
                    !.phase_offset = offset,
                    !.phase_started_at = ProbeNow,
                    !.command_schedules =
                        configure_phase_commands(IDLE_NAMES, offset, ProbeNow)]],
            [k \in CourtIds |-> NewSnapshotEntry(k)],
            [kind |-> "none", spec |-> "", seen |-> "none", overlay |-> overlay])

\* One tick of the runner: the pause test, pop_due_command and
\* _select_command, the response (a visibility probe brings the state of the
\* overlay into the snapshot, a name command an empty name), the availability
\* rule of _process_snapshot, and the sleep to the next tick.
ProbeTick ==
    LET k == Courts[1]
        state == court_states[k]
        paused == is_paused(state, now)
        selected == IF paused THEN "" ELSE pop_due_selected(state, now)
        popped == IF selected = "" THEN state
                  ELSE select_command(pop_due_command(state, now), selected)
        seen == IF selected = "ProbeAvailability" THEN op.overlay ELSE op.seen
        processed == IF selected = "" THEN popped
                     ELSE IF seen = "False"
                          THEN apply_availability_pause(
                                   popped, now, Seconds(UNAVAILABLE_SLOW_POLL_SECONDS))
                     ELSE IF seen = "True" THEN clear_availability_pause(popped)
                     ELSE popped
    IN  /\ court_states' =
               [court_states EXCEPT
                   ![k] = AgedState(processed, Seconds(UPDATE_INTERVAL_SECONDS))]
        /\ op' = [op EXCEPT !.kind = IF paused THEN "paused"
                                     ELSE IF selected = "" THEN "idle" ELSE "run",
                            !.spec = selected, !.seen = seen]
        /\ UNCHANGED <<now, pc, controlapp_id, throttle_vars, admitted, links, server, snapshots,
                       tick_start, ticks, current_time, kort_index, spec_name, command, attempt,
                       last_error, history_vars, appended, occurrence_appends, trace>>

\* The operator hides or shows the overlay.
OverlayChanges ==
    /\ op.kind # "none"
    /\ op' = [op EXCEPT !.kind = "overlay",
                        !.overlay = IF @ = "True" THEN "False" ELSE "True"]
    /\ UNCHANGED <<now, pc, controlapp_id, throttle_vars, admitted, pass_vars, history_vars,
                   appended, occurrence_appends, trace>>

ProbeNext == ProbeTick \/ OverlayChanges

\* The runner thread loops for as long as the process lives.
SpecProbe == ProbeInit /\ [][ProbeNext]_vars /\ WF_vars(ProbeTick)

\* ---------------------------------------------------- reader specification
\* The scheduler thread writing one court's snapshot entry in place, statement
\* by statement, and a request thread calling get_all_snapshots, both under
\* snapshots_lock. op holds the lock, the writer's position and input, and
\* what the reader got; trace holds the values the store had whenever the
\* lock was free.
MaxWrites == 3

ReaderResponses ==
    {response \in EngineResponses :
        response[1] \in {"GetNamePlayerB", "GetPointsPlayerA", "GetSet"}
            \/ (response[1] = "GetNamePlayerA" /\ response[2]["NamePlayerA"] = "Ann")}

ReaderInit ==
    /\ EngineInitWith(StartTime,
                      [k \in CourtIds |-> CourtState(k)],
                      EmptyDict,
                      [lock |-> "free", step |-> "idle", kind |-> "none",
                       partial |-> EmptyDict, error |-> NoneStr,
                       view |-> EmptyDict, reads |-> 0, writes |-> 0])

\* A reader that does not wait for the lock.
lock_admits_always(lock) == TRUE

\* with snapshots_lock: the thread enters when no other thread holds it.
lock_admits(lock) == lock = "free"

\* ensure_snapshot_entry at the head of _merge_partial_payload and of
\* _handle_command_error: a critical section of its own.
WriterEnsure ==
    LET k == Courts[1]
    IN  /\ op.step = "idle"
        /\ op.writes < MaxWrites
        /\ lock_admits(op.lock)
        /\ snapshots' = DictSet(snapshots, k, ensure_snapshot_entry(k))
        /\ op' = [op EXCEPT !.step = "ensured"]
        /\ trace' = Append(trace, snapshots')
        /\ UNCHANGED <<now, pc, controlapp_id, throttle_vars, admitted, links, server,
                       court_states, tick_start, ticks, current_time, kort_index, spec_name,
                       command, attempt, last_error, history_vars, appended,
                       occurrence_appends>>

\* The writer takes snapshots_lock for a merge or for an error update.
WriterAcquire(kind, partial, error) ==
    /\ op.step = "ensured"
    /\ lock_admits(op.lock)
    /\ op' = [op EXCEPT !.lock = "scheduler", !.step = "locked", !.kind = kind,
                        !.partial = partial, !.error = error]
    /\ UNCHANGED <<now, pc, controlapp_id, throttle_vars, admitted, links, server,
                   court_states, snapshots, tick_start, ticks, current_time, kort_index,
                   spec_name, command, attempt, last_error, history_vars, appended,
                   occurrence_appends, trace>>

\* The first statements of the critical section, written into the entry the
\* store holds: _merge_partial_payload up to entry["badges"] = [],
\* _handle_command_error entry["error"] = error.
WriterHead ==
    LET k == Courts[1]
        entry == snapshots[k]
        merged == merge_partial_payload(entry, op.partial, now)
    IN  /\ op.step = "locked"
        /\ snapshots' =
               [snapshots EXCEPT ![k] =
                   IF op.kind = "merge"
                   THEN [entry EXCEPT !.raw = merged.raw,
                                      !.last_updated = now,
                                      !.error = NoneStr,
                                      !.pause_active = FALSE,
                                      !.pause_until = None,
                                      !.badges = <<>>]
                   ELSE [entry EXCEPT !.error = op.error]]
        /\ op' = [op EXCEPT !.step = "half"]
        /\ UNCHANGED <<now, pc, controlapp_id, throttle_vars, admitted, links, server,
                       court_states, tick_start, ticks, current_time, kort_index, spec_name,
                       command, attempt, last_error, history_vars, appended,
                       occurrence_appends, trace>>

\* The rest of the critical section and the release of the lock: the merged
\* players, serving, available and status, or the status and the pause fields
\* of the error. The merge of the half-written entry with the same partial
\* gives what the whole function gives.
WriterTail ==
    LET k == Courts[1]
        entry == snapshots[k]
        state == court_states[k]
    IN  /\ op.step = "half"
        /\ snapshots' =
               [snapshots EXCEPT ![k] =
                   IF op.kind = "merge" THEN merge_partial_payload(entry, op.partial, now)
                   ELSE handle_command_error(entry, state, op.error, now, "", <<>>, now)]
        /\ court_states' =
               [court_states EXCEPT ![k] =
                   IF op.kind = "merge" THEN state
                   ELSE update_command_error_state(state, now, "")]
        /\ op' = [op EXCEPT !.lock = "free", !.step = "idle", !.writes = @ + 1]
        /\ trace' = Append(trace, snapshots')
        /\ now' = now + Seconds(UPDATE_INTERVAL_SECONDS)
        /\ UNCHANGED <<pc, controlapp_id, throttle_vars, admitted, links, server,
                       tick_start, ticks, current_time, kort_index, spec_name, command,
                       attempt, last_error, history_vars, appended, occurrence_appends>>

\* get_all_snapshots: copy.deepcopy(snapshots) under snapshots_lock.
ReaderCopy ==
    /\ lock_admits(op.lock)
    /\ op.reads <= op.writes
    /\ op' = [op EXCEPT !.view = snapshots, !.reads = op.writes + 1]
    /\ UNCHANGED <<now, pc, controlapp_id, throttle_vars, admitted, links, server,
                   court_states, snapshots, tick_start, ticks, current_time, kort_index,
                   spec_name, command, attempt, last_error, history_vars, appended,
                   occurrence_appends, trace>>

ReaderNext ==
    \/ WriterEnsure
    \/ \E response \in ReaderResponses :
           WriterAcquire("merge", map_command_response(response[1], response[2]), NoneStr)
    \/ \E status \in {404} :
           WriterAcquire("error", EmptyDict, format_http_error_details(status))
    \/ WriterHead
    \/ WriterTail
    \/ ReaderCopy

SpecReaders == ReaderInit /\ [][ReaderNext]_vars

\* ------------------------------------------------------------------- claims
CourtApp(k) == extract_controlapp_identifier(links[k].control)

Settled == pc \in {"pass", "runner"}

\* C3: over any sequence of admissions by the global limiter, the requests
\* admitted in a window of length W are at most GLOBAL_TOKEN_BUCKET_CAPACITY +
\* floor(W * GLOBAL_RATE_LIMIT_PER_SECOND), and the token balance stays within
\* [0, capacity]. A window that holds admissions i..j is at least as long as
\* the time from the i-th to the j-th.
C3_TokenBucketWindow ==
    /\ global_token_balance \in 0..BucketCapacity
    /\ \A i \in 1..Len(admitted) : \A j \in i..Len(admitted) :
           j - i + 1 <= GLOBAL_TOKEN_BUCKET_CAPACITY
                          + ((admitted[j][2] - admitted[i][2]) * GLOBAL_RATE_LIMIT_PER_SECOND)
                                \div UnitsPerSecond

\* The bucket is emptied by a burst and one more request is admitted as soon
\* as one token is back: the bound of the window is met.
C3_Witness ==
    \E i \in 1..Len(admitted) : \E j \in i..Len(admitted) :
        /\ j - i + 1 = GLOBAL_TOKEN_BUCKET_CAPACITY + 1
        /\ admitted[j][2] > admitted[i][2]
        /\ j - i + 1 = GLOBAL_TOKEN_BUCKET_CAPACITY
                         + ((admitted[j][2] - admitted[i][2]) * GLOBAL_RATE_LIMIT_PER_SECOND)
                               \div UnitsPerSecond
        /\ global_token_balance < OneToken

\* C4: any two requests admitted by _throttle_request for one control-app id
\* are at least PER_CONTROLAPP_MIN_INTERVAL_SECONDS apart, whatever requests
\* for other ids are admitted in between.
C4_MinSpacing ==
    \A i \in 1..Len(admitted) : \A j \in 1..Len(admitted) :
        (i < j /\ admitted[i][1] = admitted[j][1])
            => admitted[j][2] - admitted[i][2] >= Seconds(PER_CONTROLAPP_MIN_INTERVAL_SECONDS)

\* Two admissions of one id exactly the minimum interval apart, with an
\* admission of another id between them.
C4_Witness ==
    \E i \in 1..Len(admitted) : \E j \in 1..Len(admitted) :
        /\ i + 1 < j
        /\ admitted[i][1] = admitted[j][1]
        /\ admitted[i + 1][1] # admitted[i][1]
        /\ admitted[j][2] - admitted[i][2] = Seconds(PER_CONTROLAPP_MIN_INTERVAL_SECONDS)

\* C1 as stated: after a 429 at time t the deadline D = max(t + Retry-After,
\* reset), or t + the minimum spacing without both headers, is the one
\* recorded; the 429 is not retried in the tick; no request is sent before D;
\* and the first tick at a time >= D with a due command and an error streak
\* below the pause threshold sends a request.
C1_Original ==
    /\ \A id \in ControlApps :
           cooldown_event[id].kind = "429" =>
               /\ cooldown_event[id].first_tick = ""
                      => next_allowed_request_by_controlapp[id]
                             = EventDeadline(cooldown_event[id])
               /\ cooldown_event[id].first_sent # None
                      => cooldown_event[id].first_sent >= EventDeadline(cooldown_event[id])
               /\ cooldown_event[id].resumed \in {"", "command"}
    /\ \A k \in CourtIds :
           (outcome[k].kind = "429" /\ Settled) => calls = outcome[k].attempt + 1

\* C1, amended: the deadline recorded after a 429 is the later of D and the
\* reset time of an exhausted daily quota that the same response announces;
\* the 429 is not retried in the tick; no request is sent before the recorded
\* deadline (so none before D); and the first tick at or after the recorded
\* deadline with a due command and an error streak below the pause threshold
\* sends a request.
C1_RateLimitCooldown ==
    /\ \A id \in ControlApps :
           cooldown_event[id].kind = "429" =>
               /\ StoredDeadline(cooldown_event[id]) >= EventDeadline(cooldown_event[id])
               /\ cooldown_event[id].first_tick_stored = ""
                      => next_allowed_request_by_controlapp[id]
                             = StoredDeadline(cooldown_event[id])
               /\ cooldown_event[id].first_sent # None
                      => cooldown_event[id].first_sent >= StoredDeadline(cooldown_event[id])
               /\ cooldown_event[id].resumed_stored \in {"", "command"}
    /\ \A k \in CourtIds :
           (outcome[k].kind = "429" /\ Settled) => calls = outcome[k].attempt + 1

\* A 429 with Retry-After was answered, ticks before the deadline sent
\* nothing, and the first tick at the deadline sent the next request.
C1_Witness ==
    \E id \in ControlApps :
        /\ cooldown_event[id].kind = "429"
        /\ cooldown_event[id].retry_after # None
        /\ cooldown_event[id].resumed_stored = "command"
        /\ cooldown_event[id].first_sent # None
        /\ ticks >= 3

\* C2 as stated: after a 404 at time t the snapshot carries the not-found
\* badge, no request is sent before t + NOT_FOUND_COOLDOWN_SECONDS, the first
\* tick after that window sends a request, and a successful response to it
\* leaves an empty badge list and no cooldown entry.
C2_Original ==
    /\ \A id \in ControlApps :
           cooldown_event[id].kind = "404" =>
               /\ cooldown_event[id].first_sent # None
                      => cooldown_event[id].first_sent >= EventDeadline(cooldown_event[id])
               /\ cooldown_event[id].first_tick \in {"", "command"}
    /\ \A k \in CourtIds :
           /\ outcome[k].kind = "404" => snapshots[k].badges = <<NOT_FOUND_BADGE>>
           /\ (outcome[k].kind = "ok" /\ outcome[k].prev = "404"
                 /\ outcome[k].tick = tick_start) =>
                  /\ snapshots[k].badges = <<>>
                  /\ next_allowed_request_by_controlapp[CourtApp(k)] = None

\* C2, amended: after a 404 at time t the snapshot carries the not-found
\* badge and no request is sent before t + NOT_FOUND_COOLDOWN_SECONDS, nor
\* before the later reset time of an exhausted daily quota that the 404
\* announces; the first tick at or after the later of the two sends a request;
\* a successful response to it leaves an empty badge list, and no cooldown
\* entry unless that response announces an exhausted quota itself.
C2_NotFoundCooldown ==
    /\ \A id \in ControlApps :
           cooldown_event[id].kind = "404" =>
               /\ cooldown_event[id].first_tick_stored = ""
                      => next_allowed_request_by_controlapp[id]
                             = StoredDeadline(cooldown_event[id])
               /\ cooldown_event[id].first_sent # None
                      => /\ cooldown_event[id].first_sent
                                >= cooldown_event[id].t + Seconds(NOT_FOUND_COOLDOWN_SECONDS)
                         /\ cooldown_event[id].first_sent
                                >= StoredDeadline(cooldown_event[id])
               /\ cooldown_event[id].first_tick_stored \in {"", "command"}
    /\ \A k \in CourtIds :
           /\ outcome[k].kind = "404" => snapshots[k].badges = <<NOT_FOUND_BADGE>>
           /\ (outcome[k].kind = "ok" /\ outcome[k].prev = "404"
                 /\ outcome[k].tick = tick_start) =>
                  /\ snapshots[k].badges = <<>>
                  /\ outcome[k].quota = None
                         => next_allowed_request_by_controlapp[CourtApp(k)] = None
                  /\ outcome[k].quota # None
                         => next_allowed_request_by_controlapp[CourtApp(k)] = outcome[k].quota

\* A 404 was answered, the window passed without a request, and the request
\* of the first tick after it succeeded and cleared the badge and the entry.
C2_Witness ==
    \E k \in CourtIds :
        /\ outcome[k].kind = "ok"
        /\ outcome[k].prev = "404"
        /\ outcome[k].quota = None
        /\ cooldown_event[CourtApp(k)].kind = "404"
        /\ cooldown_event[CourtApp(k)].first_tick_stored = "command"
        /\ cooldown_event[CourtApp(k)].first_sent
               >= cooldown_event[CourtApp(k)].t + Seconds(NOT_FOUND_COOLDOWN_SECONDS)
        /\ snapshots[k].badges = <<>>

\* The spacing gate or the token gate denies the request that waits at
\* _throttle_request.
GateDenies == WaitForControlapp(controlapp_id, now) > 0 \/ ~GlobalAvailable(now)

C6_CooldownMonotonic ==
    /\ [](\A id \in ControlApps :
             next_allowed_request_by_controlapp[id] # None
                 => next_allowed_request_by_controlapp[id] = scheduled_max[id])
    /\ [][\A id \in ControlApps :
             next_allowed_request_by_controlapp[id] # None =>
                 \/ /\ next_allowed_request_by_controlapp'[id] = None
                    /\ now >= next_allowed_request_by_controlapp[id]
                 \/ /\ next_allowed_request_by_controlapp'[id] # None
                    /\ next_allowed_request_by_controlapp'[id]
                           >= next_allowed_request_by_controlapp[id]]_vars

\* A response scheduled the quota reset and then the earlier deadline of its
\* 429: the later one is stored.
C6_Witness ==
    \E id \in ControlApps :
        /\ cooldown_event[id].kind = "429"
        /\ cooldown_event[id].quota # None
        /\ cooldown_event[id].quota > EventDeadline(cooldown_event[id])
        /\ next_allowed_request_by_controlapp[id] = cooldown_event[id].quota

\* C7: one due command makes at most MAX_RETRY_ATTEMPTS + 1 network calls in
\* a tick whatever retryable outcomes the server produces; after the last
\* failed call the court is marked unavailable and the retry loop has ended.
C7_RetryBound ==
    /\ calls <= MAX_RETRY_ATTEMPTS + 1
    /\ attempt <= MAX_RETRY_ATTEMPTS
    /\ calls <= attempt + 1
    /\ \A k \in CourtIds :
           outcome[k].kind = "exhausted" =>
               /\ outcome[k].attempt = MAX_RETRY_ATTEMPTS
               /\ snapshots[k].status = SNAPSHOT_STATUS_UNAVAILABLE
               /\ Settled => calls = MAX_RETRY_ATTEMPTS + 1

\* Every call of a command failed with a retryable outcome.
C7_Witness ==
    \E k \in CourtIds :
        /\ outcome[k].kind = "exhausted"
        /\ Settled
        /\ calls = MAX_RETRY_ATTEMPTS + 1
        /\ backoffs = MAX_RETRY_ATTEMPTS
        /\ snapshots[k].status = SNAPSHOT_STATUS_UNAVAILABLE

\* C8 as stated: every transport failure of the call, a timeout or any other
\* connection failure, and every 5xx is retried; the court is marked
\* unavailable for one only once MAX_RETRY_ATTEMPTS retries are exhausted.
C8_Original ==
    \A k \in CourtIds :
        outcome[k].kind \in {"exception", "exhausted"}
            => outcome[k].attempt = MAX_RETRY_ATTEMPTS

\* C9 as stated: for a 4xx other than 404 and 429 exactly one network call is
\* made for the command in the tick, with no backoff sleep and no cooldown
\* (absent an exhausted-quota header), and the snapshot is unavailable with
\* an error text that names the HTTP status.
C9_Original ==
    \A k \in CourtIds :
        outcome[k].kind \in {"400", "4xx"} =>
            /\ Settled => (calls = 1 /\ backoffs = 0)
            /\ outcome[k].quota = None
                   => next_allowed_request_by_controlapp[CourtApp(k)] = None
            /\ snapshots[k].status = SNAPSHOT_STATUS_UNAVAILABLE
            /\ snapshots[k].error = format_http_error_details(outcome[k].status)

\* C9, amended: a 4xx other than 404 and 429 ends the command: no call and no
\* backoff sleep follows it in the tick, so the command has made one call more
\* than the retryable failures before the 4xx (exactly one call and no
\* backoff when the 4xx answers the first call); no cooldown is scheduled
\* (absent an exhausted-quota header), and the snapshot is unavailable with
\* an error text that names the HTTP status.
C9_ClientErrorNotRetried ==
    \A k \in CourtIds :
        outcome[k].kind \in {"400", "4xx"} =>
            /\ Settled => (calls = outcome[k].attempt + 1 /\ backoffs = outcome[k].attempt)
            /\ (Settled /\ outcome[k].attempt = 0) => (calls = 1 /\ backoffs = 0)
            /\ outcome[k].quota = None
                   => next_allowed_request_by_controlapp[CourtApp(k)] = None
            /\ snapshots[k].status = SNAPSHOT_STATUS_UNAVAILABLE
            /\ snapshots[k].error = format_http_error_details(outcome[k].status)

\* A 403 answered the retry of a command whose first call got a 5xx.
C9_Witness ==
    \E k \in CourtIds :
        /\ outcome[k].kind = "4xx"
        /\ outcome[k].attempt = 1
        /\ Settled
        /\ calls = 2
        /\ backoffs = 1
        /\ snapshots[k].error = "HTTP 403"

\* The error kinds of a tick: a malformed endpoint, exhausted retries, a
\* failed call, 404, other 4xx, an undecodable 2xx body.
ReportedKinds == ErrorKinds \cup {"malformed"}

\* C10 as stated: after the tick of any error kind, 429 among them, the
\* snapshot has status unavailable, a non-empty error message and a refreshed
\* last-updated timestamp.
C10_Original ==
    \A k \in CourtIds :
        outcome[k].kind \in ReportedKinds \cup {"429"} =>
            /\ snapshots[k].status = SNAPSHOT_STATUS_UNAVAILABLE
            /\ snapshots[k].error \notin {NoneStr, ""}
            /\ snapshots[k].last_updated = outcome[k].at

\* C10, amended: after the tick of a malformed endpoint, exhausted retries, a
\* 404, another 4xx or an undecodable 2xx body the snapshot has status
\* unavailable, a non-empty error message and a refreshed last-updated
\* timestamp; after a 429 the timestamp is refreshed and the status and the
\* error message are what they were before the response.
C10_ErrorsReachSnapshot ==
    \A k \in CourtIds :
        /\ outcome[k].kind \in ReportedKinds =>
               /\ snapshots[k].status = SNAPSHOT_STATUS_UNAVAILABLE
               /\ snapshots[k].error \notin {NoneStr, ""}
               /\ snapshots[k].last_updated = outcome[k].at
               /\ outcome[k].at >= outcome[k].tick
        /\ outcome[k].kind = "429" =>
               /\ snapshots[k].status = outcome[k].before_status
               /\ snapshots[k].error = outcome[k].before_error
               /\ snapshots[k].last_updated = outcome[k].at
               /\ outcome[k].at >= outcome[k].tick

\* A 429 answered the first request for a court: the snapshot still says
\* that there is no data, with a fresh timestamp.
C10_Witness ==
    \E k \in CourtIds :
        /\ outcome[k].kind = "429"
        /\ outcome[k].before_status = SNAPSHOT_STATUS_NO_DATA
        /\ snapshots[k].status = SNAPSHOT_STATUS_NO_DATA
        /\ snapshots[k].last_updated = outcome[k].at

\* C11: an error that brings a streak of a court, the overall one or the one
\* of a command name, to COMMAND_ERROR_PAUSE_THRESHOLD leaves paused_until at
\* the time of the error plus COMMAND_ERROR_PAUSE_MINUTES minutes or later; no
\* step moves paused_until to an earlier time, and no step clears it while it
\* lies after the clock.
C11_ErrorPauseMonotonic ==
    [][\A k \in CourtIds :
          LET before == court_states[k]
              after == court_states'[k]
              by_spec == after.command_error_streak_by_spec
              grows ==
                  \/ after.command_error_streak > before.command_error_streak
                  \/ \E name \in DOMAIN by_spec :
                         by_spec[name] >
                             DictGet(before.command_error_streak_by_spec, name, 0)
              at_threshold ==
                  \/ after.command_error_streak >= COMMAND_ERROR_PAUSE_THRESHOLD
                  \/ \E name \in DOMAIN by_spec :
                         by_spec[name] >= COMMAND_ERROR_PAUSE_THRESHOLD
          IN  /\ grows /\ at_threshold =>
                     /\ after.paused_until # None
                     /\ after.paused_until >=
                            outcome'[k].t + COMMAND_ERROR_PAUSE_MINUTES * Seconds(60)
              /\ before.paused_until # None /\ after.paused_until # None =>
                     after.paused_until >= before.paused_until
              /\ before.paused_until # None /\ before.paused_until > now =>
                     after.paused_until # None]_vars

\* The third error in a row paused a court, and a later error of a paused
\* court found the deadline in place.
C11_Witness ==
    \E k \in CourtIds :
        /\ court_states[k].command_error_streak > COMMAND_ERROR_PAUSE_THRESHOLD
        /\ court_states[k].paused_until # None
        /\ court_states[k].paused_until > now

\* C12: once a command of a court has ended in a successful exchange (2xx
\* with a decodable body), the overall error streak of the court is 0 and its
\* map of per-command streaks is empty for the rest of the tick, whatever
\* the streaks were before.
C12_SuccessResetsStreaks ==
    \A k \in CourtIds :
        outcome[k].kind = "ok" /\ outcome[k].tick = tick_start =>
            /\ court_states[k].command_error_streak = 0
            /\ court_states[k].command_error_streak_by_spec = EmptyDict

\* A success ended the command of a court whose command before it had
\* failed and left a streak.
C12_Witness ==
    \E k \in CourtIds :
        /\ outcome[k].kind = "ok"
        /\ outcome[k].tick = tick_start
        /\ outcome[k].prev \in ErrorKinds \cup {"429"}
        /\ court_states[k].command_error_streak = 0

\* C13: after a merge the status is ok exactly when both sides have a
\* non-empty name together with a point value or at least one non-empty
\* value in the map of set and tie-break fields, and no-data otherwise.
C13_Original ==
    \A k \in CourtIds :
        LET players == snapshots[k].players
            HasPayload(suffix) ==
                /\ suffix \in DOMAIN players
                /\ ~Blank(players[suffix].name)
                /\ \/ ~Blank(players[suffix].points)
                   \/ \E key \in DOMAIN players[suffix].sets :
                          ~Blank(players[suffix].sets[key])
        IN  op.kind = "merge" =>
                snapshots[k].status =
                    IF \A suffix \in Suffixes : HasPayload(suffix)
                    THEN SNAPSHOT_STATUS_OK ELSE SNAPSHOT_STATUS_NO_DATA

\* C14: every step of the engine, a merge or an error, keeps every key of
\* the accumulated raw map of the snapshot, and a merge changes the values
\* of no key but those of the merged response.
C14_RawKeysPersist ==
    [][\A k \in CourtIds :
          LET before == snapshots[k].raw
              after == snapshots'[k].raw
          IN  /\ DOMAIN before \subseteq DOMAIN after
              /\ op'.kind = "merge" =>
                     \A key \in (DOMAIN before) \ (DOMAIN op'.partial) :
                         after[key] = before[key]]_vars

\* A merge of the name of side A into a raw map that holds the sets and the
\* name of side B.
C14_Witness ==
    \E k \in CourtIds :
        /\ op.kind = "merge"
        /\ DOMAIN op.partial = {"NamePlayerA"}
        /\ {"NamePlayerB", "Set1PlayerA"} \subseteq DOMAIN snapshots[k].raw
        /\ snapshots[k].raw["NamePlayerA"] = op.partial["NamePlayerA"]

\* C15: merging a response a second time changes nothing but the
\* timestamp: the snapshot a merge has left and the snapshot of merging the
\* same response into it again have the same raw map, player records,
\* serving side, availability and status.
C15_MergeIdempotent ==
    \A k \in CourtIds :
        op.kind = "merge" =>
            LET once == snapshots[k]
                twice == merge_partial_payload(once, op.partial,
                                               now + Seconds(UPDATE_INTERVAL_SECONDS))
            IN  /\ twice.raw = once.raw
                /\ twice.players = once.players
                /\ twice.serving = once.serving
                /\ twice.available = once.available
                /\ twice.status = once.status

\* The merge that completed both sides: the status went to ok with it.
C15_Witness ==
    \E k \in CourtIds :
        /\ op.kind = "merge"
        /\ snapshots[k].status = SNAPSHOT_STATUS_OK
        /\ "Set1PlayerA" \in DOMAIN op.partial

\* The fields of a snapshot that an error is to leave alone, the archive
\* aside.
C16_Kept(entry) == <<entry.kort_id, entry.raw, entry.players, entry.serving>>

\* C16 as stated: a tick whose command ends in an error leaves the raw map,
\* the player records and the archive of the snapshot as they were.
C16_Original ==
    [][\A k \in CourtIds :
          op'.kind \in {"error", "429"} =>
              /\ C16_Kept(snapshots'[k]) = C16_Kept(snapshots[k])
              /\ snapshots'[k].archive = snapshots[k].archive]_vars

\* C16: a tick whose command ends in an error leaves the raw map and the
\* player records of the snapshot as they were, and the archive too unless
\* the processing of the snapshot in that tick moves the court into
\* FINISHED: the archive then gains the snapshot of the error as its last
\* entry. Status, error, availability, timestamp, pause fields and badges
\* are what may change besides.
C16_ErrorKeepsData ==
    [][\A k \in CourtIds :
          op'.kind \in {"error", "429"} =>
              /\ C16_Kept(snapshots'[k]) = C16_Kept(snapshots[k])
              /\ IF court_states[k].phase # FINISHED /\ court_states'[k].phase = FINISHED
                 THEN /\ Len(snapshots'[k].archive) = Len(snapshots[k].archive) + 1
                      /\ SubSeq(snapshots'[k].archive, 1, Len(snapshots[k].archive)) =
                             snapshots[k].archive
                      /\ snapshots'[k].archive[Len(snapshots'[k].archive)].status =
                             SNAPSHOT_STATUS_UNAVAILABLE
                 ELSE snapshots'[k].archive = snapshots[k].archive]_vars

\* A 404 ended the command of a court with both names and its sets known,
\* and the snapshot carries the badge, the error and the data.
C16_Witness ==
    \E k \in CourtIds :
        /\ op.kind = "error"
        /\ snapshots[k].status = SNAPSHOT_STATUS_UNAVAILABLE
        /\ snapshots[k].badges = <<NOT_FOUND_BADGE>>
        /\ DOMAIN snapshots[k].players = Suffixes
        /\ "Set1PlayerA" \in DOMAIN snapshots[k].raw

\* C17: after N appends to the archive of a court, the archive has
\* min(N, ARCHIVE_LIMIT) entries, and they are the last min(N, ARCHIVE_LIMIT)
\* snapshots appended, in the order of their appends.
C17_ArchiveKeepsNewest ==
    \A k \in CourtIds :
        LET archive == snapshots[k].archive
            kept == Min2(Len(appended), ARCHIVE_LIMIT)
        IN  /\ Len(archive) = kept
            /\ \A i \in 1..kept :
                   archive[i].last_updated = appended[Len(appended) - kept + i]

\* More snapshots were appended than the archive holds: the oldest are gone.
C17_Witness ==
    \E k \in CourtIds :
        /\ Len(appended) > ARCHIVE_LIMIT + 1
        /\ Len(snapshots[k].archive) = ARCHIVE_LIMIT
        /\ snapshots[k].archive[1].last_updated > appended[2]

\* C18: a tick whose processing moves a court from another phase into
\* FINISHED appends one entry to its archive, with the status, timestamp,
\* players, serving side, raw map and error of the snapshot processed in
\* that tick; no other tick changes the archive, none that stays in FINISHED
\* and none that leaves it.
C18_ArchiveOnEntryOnly ==
    [][\A k \in CourtIds :
          LET snapshot == snapshots'[k]
              copy == [kort_id |-> snapshot.kort_id, status |-> snapshot.status,
                       last_updated |-> snapshot.last_updated,
                       players |-> snapshot.players, serving |-> snapshot.serving,
                       raw |-> snapshot.raw, error |-> snapshot.error]
          IN  snapshots'[k].archive =
                  IF court_states[k].phase # FINISHED /\ court_states'[k].phase = FINISHED
                  THEN Append(snapshots[k].archive, copy)
                  ELSE snapshots[k].archive]_vars

\* A court entered FINISHED for the second time: its archive has the two
\* snapshots of the two entries.
C18_Witness ==
    \E k \in CourtIds :
        /\ court_states[k].phase = FINISHED
        /\ op.previous_phase # FINISHED
        /\ Len(snapshots[k].archive) = 2
        /\ snapshots[k].archive[2].last_updated = snapshots[k].last_updated

\* C19 as stated: in FINISHED, a processed snapshot whose name or raw
\* signature differs from the recorded one always leaves the court in
\* IDLE_NAMES with one archive entry for the occurrence.
C19_Original ==
    [][\A k \in CourtIds :
          (/\ court_states[k].phase = FINISHED
           /\ op'.desired # ""
           /\ \/ compute_name_signature(snapshots'[k])
                     # court_states[k].finished_name_signature
              \/ compute_raw_signature(snapshots'[k])
                     # court_states[k].finished_raw_signature)
          => (court_states'[k].phase = IDLE_NAMES /\ occurrence_appends' = 1)]_vars

\* C19: in FINISHED, when the classifier still returns FINISHED for the
\* processed snapshot and its name or raw signature differs from the one
\* recorded for the occurrence, the court is in IDLE_NAMES after the tick and
\* the occurrence appended exactly one archive entry.
C19_ResetToIdleNames ==
    [][\A k \in CourtIds :
          (/\ court_states[k].phase = FINISHED
           /\ op'.desired = FINISHED
           /\ \/ compute_name_signature(snapshots'[k])
                     # court_states[k].finished_name_signature
              \/ compute_raw_signature(snapshots'[k])
                     # court_states[k].finished_raw_signature)
          => (court_states'[k].phase = IDLE_NAMES /\ occurrence_appends' = 1)]_vars

\* The forced exit happened: the court was in FINISHED, the classifier said
\* FINISHED again, a new name arrived and the court is back in IDLE_NAMES.
C19_Witness ==
    \E k \in CourtIds :
        /\ op.kind = "merge"
        /\ op.previous_phase = FINISHED
        /\ op.desired = FINISHED
        /\ court_states[k].phase = IDLE_NAMES
        /\ compute_name_signature(snapshots[k]) = <<"Cid", "Bob">>
        /\ Len(snapshots[k].archive) = 1
        /\ occurrence_appends = 1

\* C20 as stated: a court leaves FINISHED only at a tick where the
\* classifier still returns FINISHED and the name or raw signature changed,
\* and then to IDLE_NAMES.
C20_Original ==
    [][\A k \in CourtIds :
          (court_states[k].phase = FINISHED /\ court_states'[k].phase # FINISHED)
          => (/\ op'.desired = FINISHED
              /\ \/ compute_name_signature(snapshots'[k])
                        # court_states[k].finished_name_signature
                 \/ compute_raw_signature(snapshots'[k])
                        # court_states[k].finished_raw_signature
              /\ court_states'[k].phase = IDLE_NAMES)]_vars

\* C20: a court leaves FINISHED in two ways only: by the reset rule, at a
\* tick where the classifier still returns FINISHED and the name or raw
\* signature changed, and then to IDLE_NAMES; or at a tick where the
\* classifier returns another phase, and then to that phase.
C20_ExitsFromFinished ==
    [][\A k \in CourtIds :
          (court_states[k].phase = FINISHED /\ court_states'[k].phase # FINISHED)
          => \/ /\ op'.desired = FINISHED
                /\ \/ compute_name_signature(snapshots'[k])
                          # court_states[k].finished_name_signature
                   \/ compute_raw_signature(snapshots'[k])
                          # court_states[k].finished_raw_signature
                /\ court_states'[k].phase = IDLE_NAMES
             \/ /\ op'.desired \notin {"", FINISHED}
                /\ court_states'[k].phase = op'.desired]_vars

\* The classifier took a finished court straight to LIVE_SETS when points
\* came back.
C20_Witness ==
    \E k \in CourtIds :
        /\ op.previous_phase = FINISHED
        /\ op.desired = LIVE_SETS
        /\ court_states[k].phase = LIVE_SETS
        /\ "PointsPlayerA" \in DOMAIN op.partial
        /\ court_states[k].finished_name_signature = <<>>

\* C21 as stated: over ticks that all process the same fully populated
\* snapshot, once name stability is at NAME_STABILIZATION_TICKS the court never
\* comes back to a phase it has left. The trace starts with the phase the court
\* was in before the first such tick.
C21_Original ==
    op.kind = "steady" =>
        \A i \in 1..Len(trace) : \A j \in i..Len(trace) : \A k \in j..Len(trace) :
            trace[i] = trace[k] => trace[j] = trace[i]

\* C21: over ticks that all process the same fully populated snapshot, once
\* name stability is at NAME_STABILIZATION_TICKS the phases the ticks reach
\* never step back in the order IDLE_NAMES, PRE_START, LIVE_POINTS, LIVE_GAMES,
\* TIEBREAK7, LIVE_SETS, SUPER_TB10, FINISHED, and the court comes back to the
\* phase it was in before the first of these ticks only when that phase was
\* FINISHED and the first tick reset it to IDLE_NAMES.
C21_PhaseOnlyAdvances ==
    LET order == <<IDLE_NAMES, PRE_START, LIVE_POINTS, LIVE_GAMES, TIEBREAK7, LIVE_SETS,
                   SUPER_TB10, FINISHED>>
        Rank(phase) == CHOOSE i \in 1..Len(order) : order[i] = phase
    IN  op.kind = "steady" =>
            /\ \A i \in 2..Len(trace) : \A j \in i..Len(trace) :
                   Rank(trace[i]) <= Rank(trace[j])
            /\ \A k \in 3..Len(trace) :
                   (trace[k] = trace[1] /\ trace[2] # trace[1])
                   => (trace[1] = FINISHED /\ trace[2] = IDLE_NAMES)

\* Stable names and a decided match whose points have just gone: LIVE_SETS on
\* the first tick without points, FINISHED from the next tick on.
C21_Witness ==
    /\ op.kind = "steady"
    /\ Len(trace) >= 5
    /\ trace[1] = LIVE_POINTS
    /\ trace[2] = LIVE_SETS
    /\ \A i \in 3..Len(trace) : trace[i] = FINISHED

\* C22 as stated: a snapshot whose status is not ok, or with no name on either
\* side, is classified IDLE_NAMES whatever the phase, counters and score.
C22_Original ==
    \A k \in CourtIds :
        (/\ op.kind = "classified"
         /\ \/ snapshots[k].status # SNAPSHOT_STATUS_OK
            \/ \A i \in 1..2 : compute_name_signature(snapshots[k])[i] = "")
        => op.desired = IDLE_NAMES

\* C22: a snapshot with no name on either side, or whose status is not ok
\* while name stability is below NAME_STABILIZATION_TICKS, is classified
\* IDLE_NAMES whatever the phase, the streaks and the score.
C22_IdleWithoutNames ==
    \A k \in CourtIds :
        (/\ op.kind = "classified"
         /\ \/ \A i \in 1..2 : compute_name_signature(snapshots[k])[i] = ""
            \/ /\ snapshots[k].status # SNAPSHOT_STATUS_OK
               /\ court_states[k].name_stability < NAME_STABILIZATION_TICKS)
        => op.desired = IDLE_NAMES

\* A court in FINISHED with a decided match in the score and no names at all
\* was classified IDLE_NAMES.
C22_Witness ==
    \E k \in CourtIds :
        /\ op.kind = "classified"
        /\ snapshots[k].status = SNAPSHOT_STATUS_OK
        /\ compute_name_signature(snapshots[k]) = <<"", "">>
        /\ court_states[k].phase = FINISHED
        /\ op.score.sets_won = <<2, 0>>
        /\ court_states[k].points_absent_streak = 2
        /\ op.desired = IDLE_NAMES

\* C24: for a snapshot with status ok and both names stable, the classifier
\* returns the first match of: FINISHED when a set is complete, the leader has
\* two sets or three sets are complete, and points have been absent for two
\* ticks; SUPER_TB10 on the super-tie-break flag; TIEBREAK7 on the tie-break
\* flag; LIVE_SETS when a set is present and one is complete; LIVE_GAMES when
\* a game count is positive; LIVE_POINTS when points have been positive for
\* two ticks; PRE_START otherwise.
C24_FirstMatchWins ==
    \A k \in CourtIds :
        LET score == op.score
            state == court_states[k]
            leader == IF score.sets_won[1] >= score.sets_won[2]
                      THEN score.sets_won[1] ELSE score.sets_won[2]
            rules == <<
                <</\ score.sets_completed >= 1
                   /\ (leader >= 2 \/ score.sets_completed >= 3)
                   /\ state.points_absent_streak >= 2, FINISHED>>,
                <<score.super_tb_active, SUPER_TB10>>,
                <<score.tie_break_active, TIEBREAK7>>,
                <<score.sets_present /\ score.sets_completed >= 1, LIVE_SETS>>,
                <<score.games_positive, LIVE_GAMES>>,
                <<state.points_positive_streak >= 2, LIVE_POINTS>>,
                <<TRUE, PRE_START>> >>
            first == CHOOSE i \in 1..Len(rules) :
                         rules[i][1] /\ \A j \in 1..(i - 1) : ~rules[j][1]
        IN  (/\ op.kind = "classified"
             /\ snapshots[k].status = SNAPSHOT_STATUS_OK
             /\ \A i \in 1..2 : compute_name_signature(snapshots[k])[i] # ""
             /\ state.name_stability >= NAME_STABILIZATION_TICKS)
            => op.desired = rules[first][2]

\* Three sets complete at one set each, games being played and points absent
\* for one tick only: not FINISHED yet, so the sets rule gives LIVE_SETS.
C24_Witness ==
    \E k \in CourtIds :
        /\ op.kind = "classified"
        /\ snapshots[k].status = SNAPSHOT_STATUS_OK
        /\ court_states[k].name_stability = NAME_STABILIZATION_TICKS
        /\ op.score.sets_completed = 3
        /\ op.score.sets_won = <<1, 1>>
        /\ op.score.games_positive
        /\ court_states[k].points_absent_streak = 1
        /\ op.desired = LIVE_SETS

C25_NextDueAdvances ==
    [][\A k \in CourtIds :
          LET before == court_states[k]
              after == court_states'[k]
          IN  before.phase = after.phase =>
                  \A n \in DOMAIN before.command_schedules :
                      LET old == before.command_schedules[n]
                          new == after.command_schedules[n]
                          later == IF now >= old.next_due THEN now ELSE old.next_due
                      IN  /\ new.next_due >= old.next_due
                          /\ (op'.kind = "run" /\ op'.spec = n)
                             => /\ new.next_due >= later + old.spec.interval
                                /\ new.last_run = now
                                /\ old.last_run # None
                                   => now - old.last_run >= old.spec.interval
                          /\ ~(op'.kind = "run" /\ op'.spec = n) => new = old]_vars

\* A schedule ran late, after a pause longer than its interval, and its next
\* run is due one interval after that run, not at the missed times.
C25_Witness ==
    \E k \in CourtIds : \E i \in 1..Len(trace) : \E j \in (i + 1)..Len(trace) :
        LET schedule == court_states[k].command_schedules[trace[j].spec]
        IN  /\ op.kind = "run"
            /\ j = Len(trace)
            /\ trace[i].spec = trace[j].spec
            /\ trace[i].epoch = trace[j].epoch
            /\ trace[j].time - trace[i].time > schedule.spec.interval
            /\ schedule.last_run = trace[j].time
            /\ schedule.next_due = trace[j].time + schedule.spec.interval

\* The order the selection rule names: earlier next_due, then earlier last_run
\* (a schedule that never ran first), then the name.
DueBefore(s, t) ==
    \/ s.next_due < t.next_due
    \/ s.next_due = t.next_due /\ s.last_run < t.last_run
    \/ s.next_due = t.next_due /\ s.last_run = t.last_run
                               /\ NameRank(s.spec.name) < NameRank(t.spec.name)

\* The names of the schedules of a state with next_due <= now.
DueNames(state, now_value) ==
    {n \in DOMAIN state.command_schedules :
        /\ state.command_schedules[n].next_due # None
        /\ state.command_schedules[n].next_due <= now_value}

\* C26: pop_due_command returns nothing iff no schedule has next_due <= now,
\* and otherwise, unless both name commands are due, it returns the due
\* schedule with the earliest next_due, ties broken by the earliest last_run
\* (never-run first) and then by name.
C26_Original ==
    [][ticks' # ticks =>
        LET state == court_states[Courts[1]]
            due == DueNames(state, now)
        IN  /\ (op'.spec = "") <=> (due = {})
            /\ (due # {} /\ ~(NameCommands \subseteq due)) =>
                /\ op'.spec \in due
                /\ \A n \in due \ {op'.spec} :
                      DueBefore(state.command_schedules[op'.spec],
                                state.command_schedules[n])]_vars

\* C27: whenever GetNamePlayerA and GetNamePlayerB are both due and the
\* previously selected command was one of them, pop_due_command selects the
\* other one: the same name command is never selected twice in a row while
\* both are due.
C27_NamesAlternate ==
    [][ticks' # ticks =>
        LET state == court_states[Courts[1]]
        IN  (NameCommands \subseteq DueNames(state, now)
                /\ state.last_command \in NameCommands) =>
                /\ op'.spec \in NameCommands \ {state.last_command}
                /\ court_states'[Courts[1]].last_command = op'.spec]_vars

\* One name command has just been selected straight after the other, which
\* was still due when the selection was made.
C27_Witness ==
    LET state == court_states[Courts[1]]
        n == Len(trace)
    IN  /\ op.kind = "run"
        /\ n >= 2
        /\ trace[n - 1].spec = "GetNamePlayerB"
        /\ trace[n].spec = "GetNamePlayerA"
        /\ trace[n].epoch = trace[n - 1].epoch
        /\ state.last_command = "GetNamePlayerA"
        /\ state.command_schedules["GetNamePlayerB"].last_run = trace[n - 1].time
        /\ state.command_schedules["GetNamePlayerB"].next_due <= trace[n].time

\* The commands the runs of one scheduled command have issued, in order.
IssuedBy(spec) ==
    LET OfSpec(e) == e.spec = spec
        runs == SelectSeq(trace, OfSpec)
    IN  [i \in 1..Len(runs) |-> runs[i].command]

RECURSIVE PlanSlots(_)
\* The entries of one full cycle of a plan: a plain command fills one slot, a
\* per-player command two.
PlanSlots(commands) ==
    IF commands = <<>> THEN <<>>
    ELSE (IF HasPlaceholder(Head(commands)) THEN <<Head(commands), Head(commands)>>
          ELSE <<Head(commands)>>) \o PlanSlots(Tail(commands))

\* The side a concrete command probes, NoneStr when it probes none.
SideOf(issued_command) ==
    IF issued_command \in {"GetPointsPlayerA", "GetCurrentSetPlayerA", "GetTieBreakPlayerA"} THEN "A"
    ELSE IF issued_command \in {"GetPointsPlayerB", "GetCurrentSetPlayerB", "GetTieBreakPlayerB"}
    THEN "B" ELSE NoneStr

\* The plan of the phase the court is in.
CurrentPlan == COMMAND_PLAN(court_states[Courts[1]].phase)

\* C28: for a scheduled command with a player rotation over (A, B), successive
\* full expansions of its pending queue start with alternating sides: if one
\* cycle issues its per-player command for A before B, the next cycle within
\* the same phase issues it for B before A.
C28_Original ==
    \A spec \in DOMAIN CurrentPlan :
        LET slots == PlanSlots(CurrentPlan[spec].commands)
            issued == IssuedBy(spec)
            size == Len(slots)
        IN  \A first \in 1..size :
                (HasPlaceholder(slots[first])
                    /\ \A o \in 1..(first - 1) : ~HasPlaceholder(slots[o])) =>
                \A i \in 1..Len(issued) :
                    (i > size /\ (i - 1) % size = first - 1) =>
                        SideOf(issued[i]) # SideOf(issued[i - size])

\* C29: each run of a scheduled command yields exactly one concrete API
\* command; across consecutive runs within one phase its plan is consumed as
\* a FIFO queue: one full cycle issues every plan entry once, in plan order -
\* each plain command once and each per-player command once for A and once
\* for B - before the queue is rebuilt, and a run probes at most one side.
C29_PlanConsumedInOrder ==
    /\ \A i \in 1..Len(trace) :
          /\ trace[i].spec \in DOMAIN CurrentPlan
          /\ trace[i].command # ""
          /\ ~HasPlaceholder(trace[i].command)
    /\ \A spec \in DOMAIN CurrentPlan :
        LET slots == PlanSlots(CurrentPlan[spec].commands)
            issued == IssuedBy(spec)
            size == Len(slots)
            Slot(i) == ((i - 1) % size) + 1
        IN  \A i \in 1..Len(issued) :
                LET template == slots[Slot(i)]
                IN  IF ~HasPlaceholder(template)
                    THEN issued[i] = template
                    ELSE /\ issued[i] \in {FormatTemplate(template, "A"),
                                           FormatTemplate(template, "B")}
                         /\ (Slot(i) > 1 /\ slots[Slot(i) - 1] = template) =>
                                /\ issued[i - 1] \in {FormatTemplate(template, "A"),
                                                      FormatTemplate(template, "B")}
                                /\ issued[i] # issued[i - 1]

\* The GetPoints plan of a points phase has been consumed twice in full and a
\* third cycle has begun.
C29_Witness ==
    /\ "GetPoints" \in DOMAIN CurrentPlan
    /\ Len(IssuedBy("GetPoints")) = 2 * Len(PlanSlots(CurrentPlan["GetPoints"].commands)) + 1
    /\ op.kind = "run"
    /\ op.command = "GetOverlayVisibility"

\* C30: a tick over a resource whose enabled flag is false sends no request
\* and mutates nothing for that resource: no court state or snapshot entry is
\* created, and an existing phase, schedules, counters and snapshot are left
\* unchanged.
C30_DisabledSkipped ==
    [][(pc = "pass" /\ kort_index \in 1..Len(Courts)
            /\ ~links[Courts[kort_index]].enabled) =>
        /\ court_states' = court_states
        /\ snapshots' = snapshots
        /\ requests' = requests
        /\ pc' = "pass"
        /\ kort_index' = kort_index + 1
        /\ UNCHANGED <<throttle_vars, admitted, outcome, spec_name, command>>]_vars

\* A disabled court with a state and a snapshot from earlier ticks has just
\* been passed over, after a command had run for it.
C30_Witness ==
    LET k == Courts[1]
    IN  /\ pc = "pass"
        /\ kort_index = 2
        /\ ~links[k].enabled
        /\ k \in DOMAIN court_states
        /\ k \in DOMAIN snapshots
        /\ court_states[k].last_command # NoneStr
        /\ requests > 0

\* C31: when a response for a resource carries a daily-quota header with
\* remaining <= 0 and a reset time R, a cooldown with deadline >= R is
\* scheduled for the resource and no further request is sent for it within
\* the same tick, whatever the HTTP status of the response is. A command is
\* only started with no cooldown pending, so a cooldown pending while the
\* retry loop waits for admission is one a response of this tick scheduled.
C31_Original ==
    [][LET k == Courts[1]
           id == controlapp_id
       IN  /\ (pc = "request" /\ pc' = "pass" /\ outcome'[k].quota # None) =>
                  /\ next_allowed_request_by_controlapp'[id] # None
                  /\ next_allowed_request_by_controlapp'[id] >= outcome'[k].quota
           /\ (pc = "request" /\ pc' = "throttle"
                  /\ next_allowed_request_by_controlapp'[id] # None) =>
                  next_allowed_request_by_controlapp'[id] >= QuotaResetSeconds
           /\ (pc = "throttle" /\ next_allowed_request_by_controlapp[id] # None) =>
                  requests' = requests]_vars

\* C32: a reader calling get_all_snapshots concurrently with the scheduler
\* thread never observes a snapshot in the middle of one merge or one error
\* update: what it gets is the store as it was at a moment no write was under
\* way (the empty store of the start, or the store at a release of the lock),
\* and later writes do not alter what it got.
C32_ReadsAreAtomic ==
    /\ [](op.reads > 0 => (op.view = EmptyDict \/ \E i \in 1..Len(trace) : op.view = trace[i]))
    /\ [][op'.reads = op.reads => op'.view = op.view]_vars

\* The reader holds a copy taken after one write was complete, while the next
\* write is half done and the store differs from the copy.
C32_Witness ==
    /\ op.reads > 0
    /\ op.step = "half"
    /\ op.writes > 0
    /\ Courts[1] \in DOMAIN op.view
    /\ op.view # snapshots
    /\ \A i \in 1..Len(trace) : snapshots # trace[i]

\* C33: a processed snapshot with both names, no points, games or sets and
\* status no-data, at the tick that brings the name-stability counter of a
\* court in IDLE_NAMES to NAME_STABILIZATION_TICKS, moves the court to
\* PRE_START, where the point commands are scheduled.
C33_StableNamesStartPolling ==
    [][\A k \in CourtIds :
          LET signature == compute_name_signature(snapshots'[k])
              score == compute_score_snapshot(snapshots'[k])
              before == court_states[k]
              after == court_states'[k]
          IN  (/\ op'.desired # ""
               /\ before.phase = IDLE_NAMES
               /\ signature[1] # "" /\ signature[2] # ""
               /\ snapshots'[k].status = SNAPSHOT_STATUS_NO_DATA
               /\ ~score.points_any /\ ~score.games_any /\ ~score.sets_present
               /\ after.name_stability >= NAME_STABILIZATION_TICKS)
              => /\ after.phase = PRE_START
                 /\ op'.desired = PRE_START
                 /\ DOMAIN after.command_schedules = {"GetPoints"}]_vars

\* Ann and Bob were processed for the third time in a row: the status is
\* no-data, nothing of the score is known, and the court has left IDLE_NAMES
\* for PRE_START with GetPoints as its schedule.
C33_Witness ==
    \E k \in CourtIds :
        /\ op.kind = "merge"
        /\ op.previous_phase = IDLE_NAMES
        /\ court_states[k].phase = PRE_START
        /\ court_states[k].name_stability = NAME_STABILIZATION_TICKS
        /\ court_states[k].last_name_signature = <<"Ann", "Bob">>
        /\ snapshots[k].status = SNAPSHOT_STATUS_NO_DATA
        /\ ~compute_score_snapshot(snapshots[k]).points_any
        /\ ~compute_score_snapshot(snapshots[k]).sets_present
        /\ "GetPoints" \in DOMAIN court_states[k].command_schedules

\* The runs of one scheduled command since the last transition, up to run n.
RunsInEpoch(n) ==
    Cardinality({i \in 1..n : trace[i].spec = trace[n].spec /\ trace[i].epoch = trace[n].epoch})

\* C34: the schedules of a court are those of the spec table of its phase;
\* every command issued comes from the plan of the phase the court was in
\* when it was selected; a transition empties the pending queues and the
\* rotation, and the runs after it consume the plan of the new phase from
\* its first entry.
C34_CommandsOfCurrentPhase ==
    /\ [](\A k \in CourtIds :
            LET state == court_states[k]
                table == NORMAL_COMMAND_SPECS(state.phase)
            IN  /\ DOMAIN state.command_schedules = {spec.name : spec \in table}
                /\ \A n \in DOMAIN state.command_schedules :
                       /\ state.command_schedules[n].spec \in table
                       /\ state.command_schedules[n].spec.name = n
                /\ DOMAIN state.pending_players_by_spec \subseteq DOMAIN COMMAND_PLAN(state.phase))
    /\ [](\A n \in 1..Len(trace) :
            LET plan == COMMAND_PLAN(trace[n].phase)
            IN  /\ trace[n].spec \in DOMAIN plan
                /\ LET slots == PlanSlots(plan[trace[n].spec].commands)
                       template == slots[((RunsInEpoch(n) - 1) % Len(slots)) + 1]
                   IN  trace[n].command \in {FormatTemplate(template, "A"),
                                             FormatTemplate(template, "B")})
    /\ [][\A k \in CourtIds :
            court_states'[k].phase # court_states[k].phase =>
                /\ court_states'[k].pending_players_by_spec = EmptyDict
                /\ court_states'[k].next_player_by_spec = EmptyDict]_vars

\* A court in PRE_START had issued GetOverlayVisibility and held GetMode,
\* GetServe and the two point commands in its queue when it moved to
\* TIEBREAK7; the first run there issued GetOverlayVisibility of the
\* tie-break plan and left GetTieBreakVisibility at the head of the queue.
C34_Witness ==
    /\ Len(trace) = 2
    /\ trace[1].phase = PRE_START /\ trace[1].command = "GetOverlayVisibility"
    /\ trace[2].phase = TIEBREAK7 /\ trace[2].command = "GetOverlayVisibility"
    /\ trace[2].epoch = 1
    /\ op.kind = "run"
    /\ court_states[Courts[1]].pending_players_by_spec["GetPoints"][1][1] = "GetTieBreakVisibility"

\* The time the visit of the court at kort_index works with.
VisitTime == IF kort_index = 1 THEN current_time ELSE now

\* The court at kort_index is polled and is under a cooldown of its control
\* app, an error pause or an availability pause at the time of the visit.
Suppressed(kort_id) ==
    LET id == extract_controlapp_identifier(links[kort_id].control)
        state == court_states[kort_id]
    IN  /\ links[kort_id].enabled
        /\ id \in ControlApps
        /\ \/ /\ next_allowed_request_by_controlapp[id] # None
              /\ next_allowed_request_by_controlapp[id] > VisitTime
           \/ state.paused_until # None /\ state.paused_until > VisitTime
           \/ /\ state.availability_paused_until # None
              /\ state.availability_paused_until > VisitTime

C35_WitnessCooldown ==
    \E k \in CourtIds :
        /\ pc = "pass"
        /\ kort_index = Len(Courts) + 1
        /\ links[k].enabled
        /\ extract_controlapp_identifier(links[k].control) \in ControlApps
        /\ next_allowed_request_by_controlapp[extract_controlapp_identifier(links[k].control)] # None
        /\ next_allowed_request_by_controlapp[extract_controlapp_identifier(links[k].control)] > current_time
        /\ outcome[k].tick # tick_start
        /\ requests > 0

\* A court under an error pause has just been passed over.
C35_WitnessPause ==
    \E k \in CourtIds :
        /\ pc = "pass"
        /\ kort_index = Len(Courts) + 1
        /\ court_states[k].paused_until # None
        /\ court_states[k].paused_until > current_time
        /\ outcome[k].tick # tick_start
        /\ requests > 0

\* The availability pause of the court at kort_index.
AvailabilityDeadline == court_states[Courts[kort_index]].availability_paused_until

\* The response just handled was a success for court k and the snapshot it
\* left reports the overlay as hidden.
HiddenAfterSuccess(k) ==
    /\ pc = "request" /\ pc' = "pass"
    /\ Courts[kort_index] = k
    /\ outcome'[k].kind = "ok"
    /\ "OverlayVisibility" \in DOMAIN snapshots'[k].raw
    /\ ~snapshots'[k].available

\* The availability pause of court k after the response lies at least
\* UNAVAILABLE_SLOW_POLL_SECONDS after it and not before the earlier one.
PauseExtended(k) ==
    LET before == court_states[k].availability_paused_until
        after == court_states'[k].availability_paused_until
    IN  /\ after # None
        /\ after >= outcome'[k].at + Seconds(UNAVAILABLE_SLOW_POLL_SECONDS)
        /\ before # None => after >= before

\* No request goes out for a court before its availability pause has run out.
NoRequestWhilePaused ==
    requests' > requests => (AvailabilityDeadline = None \/ AvailabilityDeadline <= now)

\* The visit of a polled court whose last exchange was a success and whose
\* availability pause has run out.
VisitAfterDeadline ==
    /\ pc = "pass" /\ kort_index \in 1..Len(Courts)
    /\ links[Courts[kort_index]].enabled
    /\ extract_controlapp_identifier(links[Courts[kort_index]].control) \in ControlApps
    /\ outcome[Courts[kort_index]].kind = "ok"
    /\ AvailabilityDeadline # None
    /\ VisitTime >= AvailabilityDeadline

\* A successful response that leaves the overlay visible clears the pause.
VisibleClearsPause ==
    \A k \in CourtIds :
        (/\ pc = "request" /\ pc' = "pass"
         /\ Courts[kort_index] = k
         /\ outcome'[k].kind = "ok"
         /\ snapshots'[k].available)
        => court_states'[k].availability_paused_until = None

\* C36 as stated: every successful response that leaves the overlay hidden
\* moves the availability pause to at least UNAVAILABLE_SLOW_POLL_SECONDS
\* after it, no request goes out before that deadline, the first tick at or
\* after it sends one, and a response with the overlay visible clears it.
C36_Original ==
    /\ [][\A k \in CourtIds : HiddenAfterSuccess(k) => PauseExtended(k)]_vars
    /\ [][NoRequestWhilePaused]_vars
    /\ [][VisitAfterDeadline => pc' = "throttle"]_vars
    /\ [][VisibleClearsPause]_vars

\* C36: a successful response that leaves the overlay hidden moves the
\* availability pause to at least UNAVAILABLE_SLOW_POLL_SECONDS after it,
\* never back, unless it is the response that resets a finished match to
\* IDLE_NAMES, which leaves the pause as it was; no request goes out before
\* the deadline; the first tick at or after it that finds no cooldown of the
\* control app sends one; a response with the overlay visible clears it.
C36_SlowPollWhileHidden ==
    /\ [][\A k \in CourtIds :
            HiddenAfterSuccess(k) =>
                IF finished_match_changed(clear_pause(court_states[k]), snapshots'[k])
                THEN /\ court_states'[k].availability_paused_until
                            = court_states[k].availability_paused_until
                     /\ court_states'[k].phase = IDLE_NAMES
                ELSE PauseExtended(k)]_vars
    /\ [][NoRequestWhilePaused]_vars
    /\ [][(/\ VisitAfterDeadline
            /\ controlapp_cooldown_until(
                   next_allowed_request_by_controlapp,
                   extract_controlapp_identifier(links[Courts[kort_index]].control),
                   VisitTime) = None)
           => pc' = "throttle"]_vars
    /\ [][VisibleClearsPause]_vars

\* The match of a court with a hidden overlay was reset at the end of its
\* pause, which stayed where it was; the next response, a second later, left
\* the overlay hidden and moved the pause UNAVAILABLE_SLOW_POLL_SECONDS on;
\* the tick before the new deadline sent nothing and the tick at the
\* deadline has sent the third request.
C36_Witness ==
    \E k \in CourtIds :
        /\ pc = "request"
        /\ requests = 3
        /\ ticks = 4
        /\ outcome[k].kind = "ok"
        /\ outcome[k].prev = "ok"
        /\ outcome[k].at = OverlayStart + Seconds(1)
        /\ court_states[k].phase = IDLE_NAMES
        /\ ~snapshots[k].available
        /\ court_states[k].availability_paused_until
               = outcome[k].at + Seconds(UNAVAILABLE_SLOW_POLL_SECONDS)
        /\ current_time = court_states[k].availability_paused_until
        /\ tick_start = current_time

\* After the reset of the finished match the probe found the overlay
\* visible, and the pause is gone.
C36_WitnessVisible ==
    \E k \in CourtIds :
        /\ outcome[k].kind = "ok"
        /\ outcome[k].tick = tick_start
        /\ snapshots[k].available
        /\ court_states[k].phase = IDLE_NAMES
        /\ court_states[k].availability_paused_until = None
        /\ pc = "pass"

\* The ProbeAvailability schedule of the court is due.
ProbeDue == is_due(court_states[Courts[1]].command_schedules["ProbeAvailability"], now)

\* C37 as stated: in IDLE_NAMES, while the ticks go on, a due
\* ProbeAvailability is eventually selected, and an overlay that is visible
\* again while the court is under an availability pause is eventually seen
\* visible and the pause lifted (or the overlay is hidden again first).
C37_Original ==
    /\ ProbeDue ~> (op.kind = "run" /\ op.spec = "ProbeAvailability")
    /\ (op.overlay = "True" /\ court_states[Courts[1]].availability_paused_until # None)
           ~> \/ op.overlay = "False"
              \/ court_states[Courts[1]].availability_paused_until = None

\* With the overlay never seen hidden, the ticks a second apart, a due
\* ProbeAvailability is selected.
C37_EverySecond ==
    ([](op.seen # "False")) => (ProbeDue ~> (op.kind = "run" /\ op.spec = "ProbeAvailability"))

\* The response for court k has just been handled and its snapshot processed.
Processed(k) ==
    /\ pc = "request" /\ pc' = "pass"
    /\ Courts[kort_index] = k
    /\ outcome'[k].kind # "429"

\* What the classifier returned for the snapshot just processed.
Desired(k) ==
    classify_phase(snapshots'[k], stabilized(court_states[k], snapshots'[k]),
                   compute_score_snapshot(snapshots'[k]))

\* The schedules, the pending queues, the rotation and the phase-entry time
\* of court k are as they were.
PhaseBookkeepingKept(k) ==
    /\ court_states'[k].phase = court_states[k].phase
    /\ court_states'[k].command_schedules = court_states[k].command_schedules
    /\ court_states'[k].pending_players_by_spec = court_states[k].pending_players_by_spec
    /\ court_states'[k].next_player_by_spec = court_states[k].next_player_by_spec
    /\ court_states'[k].phase_started_at = court_states[k].phase_started_at

\* C38 as stated: whenever the classifier returns the phase the court is in,
\* the schedules, pending queues, rotation and phase-entry time stay.
C38_Original ==
    [][\A k \in CourtIds :
          (Processed(k) /\ Desired(k) = court_states[k].phase) => PhaseBookkeepingKept(k)]_vars

\* C38: when the classifier returns the phase the court is in, the schedules,
\* pending queues, rotation and phase-entry time stay as they were, unless
\* the court is in FINISHED and the name or raw signature of the snapshot
\* differs from the recorded one: then it is moved to IDLE_NAMES and all four
\* are set up anew.
C38_SamePhaseNoOp ==
    [][\A k \in CourtIds :
          (Processed(k) /\ Desired(k) = court_states[k].phase) =>
              IF finished_match_changed(court_states[k], snapshots'[k])
              THEN /\ court_states'[k].phase = IDLE_NAMES
                   /\ court_states'[k].command_schedules =
                          configure_phase_commands(IDLE_NAMES, court_states[k].phase_offset,
                                                   outcome'[k].at)
                   /\ court_states'[k].pending_players_by_spec = EmptyDict
                   /\ court_states'[k].next_player_by_spec = EmptyDict
                   /\ court_states'[k].phase_started_at = outcome'[k].at
              ELSE PhaseBookkeepingKept(k)]_vars

\* A court in PRE_START got the answer to the first command of its GetPoints
\* plan and stayed in PRE_START: the schedule keeps the run just marked, the
\* queue the four commands still to come, the phase the time it was entered.
C38_Witness ==
    \E k \in CourtIds :
        /\ pc = "pass"
        /\ outcome[k].tick = tick_start
        /\ outcome[k].kind = "ok"
        /\ ticks >= 1
        /\ court_states[k].phase = PRE_START
        /\ court_states[k].phase_started_at = Seconds(105)
        /\ court_states[k].command_schedules["GetPoints"].last_run = outcome[k].t
        /\ "GetPoints" \in DOMAIN court_states[k].pending_players_by_spec
        /\ Len(court_states[k].pending_players_by_spec["GetPoints"]) = 4

\* C39 as stated: a tick whose command fails never changes the phase, the
\* archive or the three stability counters.
C39_Counters(state) == <<state.name_stability, state.points_positive_streak, state.points_absent_streak>>

C39_Original ==
    [][\A k \in CourtIds :
          op'.kind \in {"error", "429"} =>
              /\ court_states'[k].phase = court_states[k].phase
              /\ snapshots'[k].archive = snapshots[k].archive
              /\ C39_Counters(court_states'[k]) = C39_Counters(court_states[k])]_vars

\* C39: a tick answered with 429 is not processed: phase, archive and counters
\* stay. Every other failed tick merges nothing and marks the snapshot
\* unavailable, yet it is processed: the counters advance on the unchanged
\* names and score, the court goes to IDLE_NAMES while the names are not
\* stable, and an entry into FINISHED appends one archive entry.
C39_ErrorTicksAreProcessed ==
    [][\A k \in CourtIds :
          /\ op'.kind = "429" =>
                 /\ court_states'[k].phase = court_states[k].phase
                 /\ snapshots'[k].archive = snapshots[k].archive
                 /\ C39_Counters(court_states'[k]) = C39_Counters(court_states[k])
          /\ op'.kind = "error" =>
                 LET signature == compute_name_signature(snapshots[k])
                     score == compute_score_snapshot(snapshots[k])
                     counted == update_score_stability(
                                    update_name_stability(court_states[k], signature,
                                                          NAME_STABILIZATION_TICKS),
                                    score)
                 IN  /\ snapshots'[k].status = SNAPSHOT_STATUS_UNAVAILABLE
                     /\ snapshots'[k].raw = snapshots[k].raw
                     /\ snapshots'[k].players = snapshots[k].players
                     /\ C39_Counters(court_states'[k]) = C39_Counters(counted)
                     /\ counted.name_stability < NAME_STABILIZATION_TICKS =>
                            court_states'[k].phase = IDLE_NAMES
                     /\ IF court_states[k].phase # FINISHED /\ court_states'[k].phase = FINISHED
                        THEN Len(snapshots'[k].archive) = Len(snapshots[k].archive) + 1
                        ELSE snapshots'[k].archive = snapshots[k].archive]_vars

\* A 404 after both names and a set score: the third stable tick and the
\* second tick without points end the match and archive it.
C39_Witness ==
    \E k \in CourtIds :
        /\ op.kind = "error"
        /\ op.previous_phase # FINISHED
        /\ court_states[k].phase = FINISHED
        /\ court_states[k].name_stability = NAME_STABILIZATION_TICKS
        /\ court_states[k].points_absent_streak = 2
        /\ Len(snapshots[k].archive) = 1

\* ------------------------------------------------- rematch specification
\* Ticks of _update_once for a court whose match has finished and been
\* archived: the overlay goes on answering the name commands with the body
\* {"value": name}, repeats the set scores, or reports a first point.
MaxRematchTicks == 4

RematchResponses ==
    {<<"GetNamePlayerA", ValueBody(name)>> : name \in {"Ann", "Cid"}}
        \cup {<<"GetNamePlayerB", ValueBody("Bob")>>,
              <<"GetPointsPlayerA", ValueBody("15")>>,
              <<OverlayExchanges("Ann")[4][1], OverlayExchanges("Ann")[4][2]>>}

RematchInit ==
    \E first_name \in {"Ann", "Cid"} :
        LET exchanges == OverlayExchanges(first_name)
        IN  EngineInitWith(OverlayStart,
                           [k \in CourtIds |-> AfterExchanges(k, exchanges, Len(exchanges))[1]],
                           [k \in CourtIds |-> AfterExchanges(k, exchanges, Len(exchanges))[2]],
                           NoOp)

RematchNext ==
    \/ EngineMerge(RematchResponses, MaxRematchTicks)
    \/ EngineError({404}, MaxRematchTicks)

SpecRematch == RematchInit /\ [][RematchNext]_vars

\* The score fields of a snapshot or an archive entry: what
\* compute_score_snapshot reads, and the points and sets of the players.
C40_ScoreFields(entry) ==
    <<compute_score_snapshot(entry),
      [side \in DOMAIN entry.players |->
          <<entry.players[side].points, entry.players[side].sets>>]>>

\* The last tick found the court in FINISHED, classified it FINISHED again and
\* left it in IDLE_NAMES: the forced reset.
C40_JustReset(k) ==
    /\ op.kind = "merge"
    /\ op.previous_phase = FINISHED
    /\ op.desired = FINISHED
    /\ court_states[k].phase = IDLE_NAMES

\* C40 as stated: in the tick after a forced reset from FINISHED to
\* IDLE_NAMES the court neither re-enters FINISHED nor gets a further archive
\* entry as long as its score fields are still those of the archived match.
C40_Original ==
    [][\A k \in CourtIds :
          (/\ C40_JustReset(k)
           /\ C40_ScoreFields(snapshots'[k]) =
                  C40_ScoreFields(snapshots[k].archive[Len(snapshots[k].archive)]))
          => /\ court_states'[k].phase # FINISHED
             /\ snapshots'[k].archive = snapshots[k].archive]_vars

====
